---- MODULE Spec2Model ----
(***************************************************************************)
(* Sentinel-rooted binary search tree of src/bst/binary_tree.c.            *)
(*                                                                         *)
(* The node store is a heap: a function from the addresses of the nodes    *)
(* that are allocated (malloc'ed and not yet free'd) to their four fields. *)
(* A payload buffer is a pair <<contents, tag>>: the int the test          *)
(* comparator reads through the pointer, and a tag that tells apart two    *)
(* buffers with equal contents (two different heap addresses).             *)
(* Every C function is an operator from the heap (and the arguments) to a  *)
(* result record: the new heap, the return value, the payloads handed to   *)
(* deep_free/free in call order, and the exit status (0: returned).        *)
(*                                                                         *)
(* The code compares addresses only for equality, so the allocator is      *)
(* fixed to one legal policy: malloc returns the lowest free node address, *)
(* and the caller's make_int the lowest free tag for the contents.         *)
(* History variables (keys, adopted, op.at) follow the abstract contract   *)
(* and are never read by the operators that model the code.                *)
(***************************************************************************)
EXTENDS Integers, Sequences, FiniteSets, TLC

(* ------------------------------ bounds -------------------------------- *)
MaxKey    == 4      \* payload contents range over 1..MaxKey
MaxCopies == 2      \* buffer tags per contents
SkewMax   == 15     \* number of nodes of the skewed trees of SpecSkewed
MaxLifeKey == 3     \* payload contents of SpecLifecycle range over 1..MaxLifeKey
MaxRunKey == 5      \* payload contents of SpecRun range over 1..MaxRunKey

Keys    == 1..MaxKey
Tags    == 1..MaxCopies
Buffers == Keys \X Tags
LifeKeys == 1..MaxLifeKey
RunKeys == 1..MaxRunKey

(* ----------------------- constants of the code ------------------------ *)
NULL     == 0            \* null node pointer / null function pointer
NULLDATA == <<0, 0>>     \* null payload pointer

BINARY_SEARCH_TREE_ALLOCATION_FAILED      == 0 - 91
BINARY_SEARCH_TREE_NODE_ALLOCATION_FAILED == 0 - 90
BINARY_SEARCH_TREE_CONTAINS_FAILED        == 0 - 89
BINARY_SEARCH_TREE_INSERT_FAILED          == 0 - 88
MALFORMED_BINARY_SEARCH_TREE              == 0 - 87
BINARY_SEARCH_TREE_NOT_INITIALIZED        == 0 - 86
BINARY_SEARCH_TREE_DELETE_FAILED          == 0 - 84

INT_PTR_COMPARE == 1     \* the comparator the callers pass (non-null)
FREE_COUNTER    == 1     \* a non-null deep_free callback

\* Node addresses: enough for one node per key of either specification.
Addrs == 1..(IF SkewMax > MaxKey THEN SkewMax ELSE MaxKey)

\* sizeof(int)-like byte length of a buffer; distinct per buffer so that a
\* size that does not travel with its payload shows.
SizeOf(b) == b[1] * (MaxCopies + 1) + b[2]

(* ------------------------------- heap --------------------------------- *)
\* struct BinarySearchTreeNode after bin_search_tree_alloc_node
EmptyNode == [data |-> NULLDATA, data_size |-> 0, left |-> NULL, right |-> NULL]

\* malloc(sizeof(BinarySearchTreeNode)): the lowest free address, NULL when
\* the address space is exhausted.
Malloc(h) ==
    LET free == Addrs \ DOMAIN h
    IN  IF free = {} THEN NULL
        ELSE CHOOSE a \in free : \A b \in free : a <= b

\* free(node)
Free(h, n) == [a \in (DOMAIN h) \ {n} |-> h[a]]

\* result records
Ret(h, r)      == [heap |-> h, ret |-> r, released |-> <<>>, exit |-> 0]
Exit(h, code)  == [heap |-> h, ret |-> NULL, released |-> <<>>, exit |-> code]
Done(h, rel)   == [heap |-> h, ret |-> NULL, released |-> rel, exit |-> 0]

\* int_ptr_compare of the callers: <0, 0, >0 on the pointed-to ints
int_ptr_compare(a, b) ==
    IF a[1] < b[1] THEN 0 - 1 ELSE IF a[1] > b[1] THEN 1 ELSE 0

is_bin_search_tree_null(tree) == tree = NULL

(* ------------------------ constructors / lookup ----------------------- *)
bin_search_tree_build_empty(h) ==
    LET t == Malloc(h)
    IN  IF t = NULL THEN Exit(h, BINARY_SEARCH_TREE_ALLOCATION_FAILED)
        ELSE Ret(h @@ (t :> EmptyNode), t)

bin_search_tree_alloc_node(h) ==
    LET t == Malloc(h)
    IN  IF t = NULL THEN Exit(h, BINARY_SEARCH_TREE_NODE_ALLOCATION_FAILED)
        ELSE Ret(h @@ (t :> EmptyNode), t)

\* bug variant: the "greater" branch descends into tree->left
RECURSIVE contains_right_goes_left(_, _, _, _)
contains_right_goes_left(h, tree, data, compare) ==
    IF is_bin_search_tree_null(tree) THEN Exit(h, BINARY_SEARCH_TREE_NOT_INITIALIZED)
    ELSE IF data = NULLDATA THEN Exit(h, BINARY_SEARCH_TREE_CONTAINS_FAILED)
    ELSE IF compare = NULL THEN Exit(h, BINARY_SEARCH_TREE_CONTAINS_FAILED)
    ELSE IF h[tree].data = NULLDATA THEN
        IF h[tree].left # NULL \/ h[tree].right # NULL
        THEN Exit(h, MALFORMED_BINARY_SEARCH_TREE)
        ELSE Ret(h, NULL)
    ELSE LET cmp == int_ptr_compare(data, h[tree].data)
         IN  IF cmp = 0 THEN Ret(h, tree)
             ELSE IF cmp < 0 THEN
                 IF h[tree].left # NULL
                 THEN contains_right_goes_left(h, h[tree].left, data, compare)
                 ELSE Ret(h, NULL)
             ELSE
                 IF h[tree].left # NULL
                 THEN contains_right_goes_left(h, h[tree].left, data, compare)
                 ELSE Ret(h, NULL)

\* bin_search_tree_contains, lines 59-90 (recursive descent)
RECURSIVE bin_search_tree_contains(_, _, _, _)
bin_search_tree_contains(h, tree, data, compare) ==
    IF is_bin_search_tree_null(tree) THEN Exit(h, BINARY_SEARCH_TREE_NOT_INITIALIZED)
    ELSE IF data = NULLDATA THEN Exit(h, BINARY_SEARCH_TREE_CONTAINS_FAILED)
    ELSE IF compare = NULL THEN Exit(h, BINARY_SEARCH_TREE_CONTAINS_FAILED)
    ELSE IF h[tree].data = NULLDATA THEN
        IF h[tree].left # NULL \/ h[tree].right # NULL
        THEN Exit(h, MALFORMED_BINARY_SEARCH_TREE)
        ELSE Ret(h, NULL)
    ELSE LET cmp == int_ptr_compare(data, h[tree].data)
         IN  IF cmp = 0 THEN Ret(h, tree)
             ELSE IF cmp < 0 THEN
                 IF h[tree].left # NULL
                 THEN bin_search_tree_contains(h, h[tree].left, data, compare)
                 ELSE Ret(h, NULL)
             ELSE
                 IF h[tree].right # NULL
                 THEN bin_search_tree_contains(h, h[tree].right, data, compare)
                 ELSE Ret(h, NULL)

\* bug variant: the sentinel check of lines 78-84 is missing, the comparator
\* is handed the root's absent payload
RECURSIVE contains_compared_no_sentinel_check(_, _, _, _)
contains_compared_no_sentinel_check(h, tree, data, compare) ==
    IF is_bin_search_tree_null(tree) \/ data = NULLDATA \/ compare = NULL THEN <<>>
    ELSE LET cmp == int_ptr_compare(data, h[tree].data)
         IN  <<h[tree].data>> \o
             (IF cmp = 0 THEN <<>>
              ELSE IF cmp < 0 THEN
                  IF h[tree].left # NULL
                  THEN contains_compared_no_sentinel_check(h, h[tree].left, data, compare)
                  ELSE <<>>
              ELSE
                  IF h[tree].right # NULL
                  THEN contains_compared_no_sentinel_check(h, h[tree].right, data, compare)
                  ELSE <<>>)

\* the second arguments of the compare(data, tree->data) calls (line 86) that
\* one bin_search_tree_contains makes, in call order
RECURSIVE contains_compared(_, _, _, _)
contains_compared(h, tree, data, compare) ==
    IF is_bin_search_tree_null(tree) \/ data = NULLDATA \/ compare = NULL THEN <<>>
    ELSE IF h[tree].data = NULLDATA THEN <<>>
    ELSE LET cmp == int_ptr_compare(data, h[tree].data)
         IN  <<h[tree].data>> \o
             (IF cmp = 0 THEN <<>>
              ELSE IF cmp < 0 THEN
                  IF h[tree].left # NULL
                  THEN contains_compared(h, h[tree].left, data, compare)
                  ELSE <<>>
              ELSE
                  IF h[tree].right # NULL
                  THEN contains_compared(h, h[tree].right, data, compare)
                  ELSE <<>>)

(* ------------------------------- insert ------------------------------- *)
\* lines 131-133: the empty sentinel adopts the payload
insert_into_sentinel(h, tree, data, data_size) ==
    Ret([h EXCEPT ![tree].data = data, ![tree].data_size = data_size], tree)

\* bug variant: a duplicate key replaces the stored payload by the offered one
insert_duplicate_overwrites(h, tree, data, data_size) ==
    Ret([h EXCEPT ![tree].data = data, ![tree].data_size = data_size], tree)

\* line 137: the key is already there; the node is returned untouched
insert_duplicate(h, tree, data, data_size) == Ret(h, tree)

\* bug variant: the new leaf for a smaller key is hung on tree->right
insert_left_leaf_on_right(h, tree, data, data_size) ==
    LET a == bin_search_tree_alloc_node(h)
    IN  IF a.exit # 0 THEN a
        ELSE Ret([a.heap EXCEPT ![tree].right = a.ret,
                                ![a.ret].data = data,
                                ![a.ret].data_size = data_size], a.ret)

\* lines 141-144: new left leaf adopts the payload
insert_left_leaf(h, tree, data, data_size) ==
    LET a == bin_search_tree_alloc_node(h)
    IN  IF a.exit # 0 THEN a
        ELSE Ret([a.heap EXCEPT ![tree].left = a.ret,
                                ![a.ret].data = data,
                                ![a.ret].data_size = data_size], a.ret)

\* bug variant: the reached node is returned instead of its new right child
insert_right_leaf_returns_parent(h, tree, data, data_size) ==
    LET a == bin_search_tree_alloc_node(h)
    IN  IF a.exit # 0 THEN a
        ELSE Ret([a.heap EXCEPT ![tree].right = a.ret,
                                ![a.ret].data = data,
                                ![a.ret].data_size = data_size], tree)

\* lines 150-153: new right leaf adopts the payload
insert_right_leaf(h, tree, data, data_size) ==
    LET a == bin_search_tree_alloc_node(h)
    IN  IF a.exit # 0 THEN a
        ELSE Ret([a.heap EXCEPT ![tree].right = a.ret,
                                ![a.ret].data = data,
                                ![a.ret].data_size = data_size], a.ret)

\* bug variant: the data_size == 0 check is missing
RECURSIVE bin_search_tree_insert_node_accepts_zero_size(_, _, _, _, _)
bin_search_tree_insert_node_accepts_zero_size(h, tree, data, data_size, compare) ==
    IF is_bin_search_tree_null(tree) THEN Exit(h, BINARY_SEARCH_TREE_NOT_INITIALIZED)
    ELSE IF compare = NULL THEN Exit(h, BINARY_SEARCH_TREE_INSERT_FAILED)
    ELSE IF data = NULLDATA THEN Exit(h, BINARY_SEARCH_TREE_INSERT_FAILED)
    ELSE IF h[tree].data = NULLDATA THEN
        IF h[tree].left # NULL \/ h[tree].right # NULL
        THEN Exit(h, MALFORMED_BINARY_SEARCH_TREE)
        ELSE insert_into_sentinel(h, tree, data, data_size)
    ELSE LET cmp == int_ptr_compare(data, h[tree].data)
         IN  IF cmp = 0 THEN insert_duplicate(h, tree, data, data_size)
             ELSE IF cmp < 0 THEN
                 IF h[tree].left = NULL
                 THEN insert_left_leaf(h, tree, data, data_size)
                 ELSE bin_search_tree_insert_node_accepts_zero_size(
                          h, h[tree].left, data, data_size, compare)
             ELSE
                 IF h[tree].right = NULL
                 THEN insert_right_leaf(h, tree, data, data_size)
                 ELSE bin_search_tree_insert_node_accepts_zero_size(
                          h, h[tree].right, data, data_size, compare)

\* bin_search_tree_insert_node, lines 102-158
RECURSIVE bin_search_tree_insert_node(_, _, _, _, _)
bin_search_tree_insert_node(h, tree, data, data_size, compare) ==
    IF is_bin_search_tree_null(tree) THEN Exit(h, BINARY_SEARCH_TREE_NOT_INITIALIZED)
    ELSE IF compare = NULL THEN Exit(h, BINARY_SEARCH_TREE_INSERT_FAILED)
    ELSE IF data = NULLDATA THEN Exit(h, BINARY_SEARCH_TREE_INSERT_FAILED)
    ELSE IF data_size = 0 THEN Exit(h, BINARY_SEARCH_TREE_INSERT_FAILED)
    ELSE IF h[tree].data = NULLDATA THEN
        IF h[tree].left # NULL \/ h[tree].right # NULL
        THEN Exit(h, MALFORMED_BINARY_SEARCH_TREE)
        ELSE insert_into_sentinel(h, tree, data, data_size)
    ELSE LET cmp == int_ptr_compare(data, h[tree].data)
         IN  IF cmp = 0 THEN insert_duplicate(h, tree, data, data_size)
             ELSE IF cmp < 0 THEN
                 IF h[tree].left = NULL
                 THEN insert_left_leaf(h, tree, data, data_size)
                 ELSE bin_search_tree_insert_node(h, h[tree].left, data, data_size, compare)
             ELSE
                 IF h[tree].right = NULL
                 THEN insert_right_leaf(h, tree, data, data_size)
                 ELSE bin_search_tree_insert_node(h, h[tree].right, data, data_size, compare)

(* ------------------------------ min / max ----------------------------- *)
\* line 336: while (cur->left) cur = cur->left;
RECURSIVE leftmost(_, _)
leftmost(h, cur) == IF h[cur].left # NULL THEN leftmost(h, h[cur].left) ELSE cur

\* bug variant: "if" instead of "while", one step to the right only
rightmost_one_step(h, cur) == IF h[cur].right # NULL THEN h[cur].right ELSE cur

\* line 350: while (cur->right) cur = cur->right;
RECURSIVE rightmost(_, _)
rightmost(h, cur) == IF h[cur].right # NULL THEN rightmost(h, h[cur].right) ELSE cur

bin_search_tree_find_min(h, tree) ==
    IF is_bin_search_tree_null(tree) THEN Exit(h, BINARY_SEARCH_TREE_NOT_INITIALIZED)
    ELSE IF h[tree].data = NULLDATA THEN Exit(h, MALFORMED_BINARY_SEARCH_TREE)
    ELSE Ret(h, leftmost(h, tree))

bin_search_tree_find_max(h, tree) ==
    IF is_bin_search_tree_null(tree) THEN Exit(h, BINARY_SEARCH_TREE_NOT_INITIALIZED)
    ELSE IF h[tree].data = NULLDATA THEN Exit(h, MALFORMED_BINARY_SEARCH_TREE)
    ELSE Ret(h, rightmost(h, tree))

(* ------------------------------- delete ------------------------------- *)
\* if (deep_free) deep_free(p); else free(p);  -- either way p is released
release(deep_free, p) == <<p>>

\* bug variant: the pointers are swapped, the sizes are not
bst_swap_payload_pointers_only(h, a, b) ==
    [h EXCEPT ![a].data = h[b].data, ![b].data = h[a].data]

\* bug variant: the swap is lost, both nodes keep their payloads
bst_swap_payload_lost(h, a, b) == h

\* swap payload pointers and sizes between two nodes
bst_swap_payload(h, a, b) ==
    [h EXCEPT ![a].data = h[b].data, ![a].data_size = h[b].data_size,
              ![b].data = h[a].data, ![b].data_size = h[a].data_size]

\* bug variant: at the end of the search path the last node visited is
\* taken for the match
RECURSIVE delete_locate_stops_at_last(_, _, _, _)
delete_locate_stops_at_last(h, data, parent, curr) ==
    IF h[curr].data = NULLDATA
    THEN [found |-> FALSE, parent |-> parent, curr |-> curr,
          exit |-> MALFORMED_BINARY_SEARCH_TREE]
    ELSE LET cmp == int_ptr_compare(data, h[curr].data)
         IN  IF cmp = 0
             THEN [found |-> TRUE, parent |-> parent, curr |-> curr, exit |-> 0]
             ELSE IF cmp < 0 THEN
                 IF h[curr].left = NULL
                 THEN [found |-> TRUE, parent |-> parent, curr |-> curr, exit |-> 0]
                 ELSE delete_locate_stops_at_last(h, data, curr, h[curr].left)
             ELSE
                 IF h[curr].right = NULL
                 THEN [found |-> TRUE, parent |-> parent, curr |-> curr, exit |-> 0]
                 ELSE delete_locate_stops_at_last(h, data, curr, h[curr].right)

\* lines 202-222: the descent that finds the node and its parent
RECURSIVE delete_locate(_, _, _, _)
delete_locate(h, data, parent, curr) ==
    IF h[curr].data = NULLDATA
    THEN [found |-> FALSE, parent |-> parent, curr |-> curr,
          exit |-> MALFORMED_BINARY_SEARCH_TREE]
    ELSE LET cmp == int_ptr_compare(data, h[curr].data)
         IN  IF cmp = 0
             THEN [found |-> TRUE, parent |-> parent, curr |-> curr, exit |-> 0]
             ELSE IF cmp < 0 THEN
                 IF h[curr].left = NULL
                 THEN [found |-> FALSE, parent |-> parent, curr |-> curr, exit |-> 0]
                 ELSE delete_locate(h, data, curr, h[curr].left)
             ELSE
                 IF h[curr].right = NULL
                 THEN [found |-> FALSE, parent |-> parent, curr |-> curr, exit |-> 0]
                 ELSE delete_locate(h, data, curr, h[curr].right)

\* bug variant: every leaf is turned into a sentinel in place, as the leaf
\* root is, instead of being unlinked and freed
delete_leaf_non_root_sentinelized(h, parent, curr, deep_free) ==
    Done([h EXCEPT ![curr].data = NULLDATA, ![curr].data_size = 0],
         release(deep_free, h[curr].data))

\* bug variant: the leaf node is freed but its payload is not released
delete_leaf_non_root_leaks(h, parent, curr, deep_free) ==
    LET h1 == IF h[parent].left = curr
              THEN [h EXCEPT ![parent].left = NULL]
              ELSE [h EXCEPT ![parent].right = NULL]
    IN  Done(Free(h1, curr), <<>>)

\* lines 226-233: Case A, leaf with a parent
delete_leaf_non_root(h, parent, curr, deep_free) ==
    LET h1 == IF h[parent].left = curr
              THEN [h EXCEPT ![parent].left = NULL]
              ELSE [h EXCEPT ![parent].right = NULL]
    IN  Done(Free(h1, curr), release(deep_free, h1[curr].data))

\* bug variant: the root's data is cleared but its data_size is left
delete_leaf_root_keeps_size(h, curr, deep_free) ==
    Done([h EXCEPT ![curr].data = NULLDATA], release(deep_free, h[curr].data))

\* bug variant: the leaf root is freed like any other leaf
delete_leaf_root_freed(h, curr, deep_free) ==
    Done(Free(h, curr), release(deep_free, h[curr].data))

\* lines 234-242: Case A, leaf root becomes the empty sentinel
delete_leaf_root(h, curr, deep_free) ==
    Done([h EXCEPT ![curr].data = NULLDATA, ![curr].data_size = 0],
         release(deep_free, h[curr].data))

\* bug variant: every node with one child is handled the way the root is:
\* it takes its child's payload and links, and the child node is freed
delete_one_child_non_root_moves_payload(h, parent, curr, deep_free) ==
    LET victim == IF h[curr].left # NULL THEN h[curr].left ELSE h[curr].right
        rel == release(deep_free, h[curr].data)
        h1 == [h EXCEPT ![curr].data = h[victim].data,
                        ![curr].data_size = h[victim].data_size,
                        ![victim].data = NULLDATA,
                        ![victim].data_size = 0]
        h2 == [h1 EXCEPT ![curr].left = h1[victim].left,
                         ![curr].right = h1[victim].right]
    IN  Done(Free(h2, victim), rel)

\* bug variant: both links of the parent are redirected to the lone child
delete_one_child_non_root_both_links(h, parent, curr, deep_free) ==
    LET only_child == IF h[curr].left # NULL THEN h[curr].left ELSE h[curr].right
        h1 == [h EXCEPT ![parent].left = only_child, ![parent].right = only_child]
    IN  Done(Free(h1, curr), release(deep_free, h1[curr].data))

\* lines 248-263: Case B, one child, with a parent
delete_one_child_non_root(h, parent, curr, deep_free) ==
    LET only_child == IF h[curr].left # NULL THEN h[curr].left ELSE h[curr].right
        h1 == IF h[parent].left = curr
              THEN [h EXCEPT ![parent].left = only_child]
              ELSE [h EXCEPT ![parent].right = only_child]
    IN  Done(Free(h1, curr), release(deep_free, h1[curr].data))

\* bug variant: the release comes after the transfer, so it is the payload
\* just moved into the root that is released
delete_one_child_root_releases_moved(h, curr, deep_free) ==
    LET victim == IF h[curr].left # NULL THEN h[curr].left ELSE h[curr].right
        h1 == [h EXCEPT ![curr].data = h[victim].data,
                        ![curr].data_size = h[victim].data_size,
                        ![victim].data = NULLDATA,
                        ![victim].data_size = 0]
        rel == release(deep_free, h1[curr].data)
        h2 == [h1 EXCEPT ![curr].left = h1[victim].left,
                         ![curr].right = h1[victim].right]
    IN  Done(Free(h2, victim), rel)

\* bug variant: the victim's payload is released after the root took the
\* pointer (the victim's data is not cleared before the victim is disposed)
delete_one_child_root_double(h, curr, deep_free) ==
    LET victim == IF h[curr].left # NULL THEN h[curr].left ELSE h[curr].right
        rel == release(deep_free, h[curr].data)
        h1 == [h EXCEPT ![curr].data = h[victim].data,
                        ![curr].data_size = h[victim].data_size]
        h2 == [h1 EXCEPT ![curr].left = h1[victim].left,
                         ![curr].right = h1[victim].right]
    IN  Done(Free(h2, victim), rel \o release(deep_free, h2[victim].data))

\* lines 264-289: Case B, root with one child
delete_one_child_root(h, curr, deep_free) ==
    LET victim == IF h[curr].left # NULL THEN h[curr].left ELSE h[curr].right
        rel == release(deep_free, h[curr].data)
        h1 == [h EXCEPT ![curr].data = h[victim].data,
                        ![curr].data_size = h[victim].data_size,
                        ![victim].data = NULLDATA,
                        ![victim].data_size = 0]
        h2 == [h1 EXCEPT ![curr].left = h1[victim].left,
                         ![curr].right = h1[victim].right]
    IN  Done(Free(h2, victim), rel)

\* lines 299-302: walk left from curr->right down to the successor's parent
RECURSIVE succ_parent_walk(_, _, _)
succ_parent_walk(h, succ_parent, succ) ==
    IF h[succ_parent].left # succ
    THEN succ_parent_walk(h, h[succ_parent].left, succ)
    ELSE succ_parent

\* bug variant: the successor is unlinked as if it were a leaf, its right
\* subtree is not put in its place
delete_two_children_drops_right(h, curr, deep_free) ==
    LET m == bin_search_tree_find_min(h, h[curr].right)
    IN  IF m.exit # 0 THEN m
        ELSE
        LET succ == m.ret
            succ_parent == IF succ # h[curr].right
                           THEN succ_parent_walk(h, h[curr].right, succ)
                           ELSE curr
            h1 == bst_swap_payload(h, curr, succ)
            h2 == IF succ_parent = curr
                  THEN [h1 EXCEPT ![curr].right = NULL]
                  ELSE [h1 EXCEPT ![succ_parent].left = NULL]
        IN  Done(Free(h2, succ), release(deep_free, h2[succ].data))

\* lines 292-321: Case C, two children
delete_two_children(h, curr, deep_free) ==
    LET m == bin_search_tree_find_min(h, h[curr].right)
    IN  IF m.exit # 0 THEN m
        ELSE
        LET succ == m.ret
            succ_parent == IF succ # h[curr].right
                           THEN succ_parent_walk(h, h[curr].right, succ)
                           ELSE curr
            h1 == bst_swap_payload(h, curr, succ)
            succ_repl == h1[succ].right
            h2 == IF succ_parent = curr
                  THEN [h1 EXCEPT ![curr].right = succ_repl]
                  ELSE [h1 EXCEPT ![succ_parent].left = succ_repl]
        IN  Done(Free(h2, succ), release(deep_free, h2[succ].data))

\* bin_search_tree_delete_node, lines 172-322
bin_search_tree_delete_node(h, tree, data, compare, deep_free) ==
    IF is_bin_search_tree_null(tree) THEN Exit(h, BINARY_SEARCH_TREE_NOT_INITIALIZED)
    ELSE IF data = NULLDATA THEN Exit(h, BINARY_SEARCH_TREE_DELETE_FAILED)
    ELSE IF compare = NULL THEN Exit(h, BINARY_SEARCH_TREE_DELETE_FAILED)
    ELSE IF h[tree].data = NULLDATA THEN
        IF h[tree].left # NULL \/ h[tree].right # NULL
        THEN Exit(h, MALFORMED_BINARY_SEARCH_TREE)
        ELSE Done(h, <<>>)
    ELSE
    LET loc == delete_locate(h, data, NULL, tree)
        parent == loc.parent
        curr == loc.curr
    IN  IF loc.exit # 0 THEN Exit(h, loc.exit)
        ELSE IF ~loc.found THEN Done(h, <<>>)
        ELSE IF h[curr].left = NULL /\ h[curr].right = NULL THEN
            IF parent # NULL
            THEN delete_leaf_non_root(h, parent, curr, deep_free)
            ELSE delete_leaf_root(h, curr, deep_free)
        ELSE IF h[curr].left = NULL \/ h[curr].right = NULL THEN
            IF parent # NULL
            THEN delete_one_child_non_root(h, parent, curr, deep_free)
            ELSE delete_one_child_root(h, curr, deep_free)
        ELSE delete_two_children(h, curr, deep_free)

(* ------------------------------ rebalance ----------------------------- *)
\* in-order count (only proper nodes: data != NULL)
RECURSIVE bst_count_nodes(_, _)
bst_count_nodes(h, n) ==
    IF n = NULL THEN [count |-> 0, exit |-> 0]
    ELSE IF h[n].data = NULLDATA THEN
        IF h[n].left # NULL \/ h[n].right # NULL
        THEN [count |-> 0, exit |-> MALFORMED_BINARY_SEARCH_TREE]
        ELSE [count |-> 0, exit |-> 0]
    ELSE LET l == bst_count_nodes(h, h[n].left)
         IN  IF l.exit # 0 THEN l
             ELSE LET r == bst_count_nodes(h, h[n].right)
                  IN  IF r.exit # 0 THEN r
                      ELSE [count |-> 1 + l.count + r.count, exit |-> 0]

\* bug variant: the right subtree is visited first
RECURSIVE bst_fill_nodes_inorder_right_first(_, _)
bst_fill_nodes_inorder_right_first(h, n) ==
    IF n = NULL THEN <<>>
    ELSE bst_fill_nodes_inorder_right_first(h, h[n].right)
         \o (IF h[n].data # NULLDATA THEN <<n>> ELSE <<>>)
         \o bst_fill_nodes_inorder_right_first(h, h[n].left)

\* in-order fill: the node pointers written to arr[0..], as a sequence
RECURSIVE bst_fill_nodes_inorder(_, _)
bst_fill_nodes_inorder(h, n) ==
    IF n = NULL THEN <<>>
    ELSE bst_fill_nodes_inorder(h, h[n].left)
         \o (IF h[n].data # NULLDATA THEN <<n>> ELSE <<>>)
         \o bst_fill_nodes_inorder(h, h[n].right)

\* bug variant: the local subroot is taken a third of the way into the range
RECURSIVE bst_link_balanced_third(_, _, _, _)
bst_link_balanced_third(h, arr, lo, hi) ==
    IF hi < lo THEN [heap |-> h, root |-> NULL]
    ELSE LET mid == lo + (hi - lo) \div 3
             root == arr[mid + 1]
             l == bst_link_balanced_third(h, arr, lo, mid - 1)
             h1 == [l.heap EXCEPT ![root].left = l.root]
             r == bst_link_balanced_third(h1, arr, mid + 1, hi)
             h2 == [r.heap EXCEPT ![root].right = r.root]
         IN  [heap |-> h2, root |-> root]

\* bug variant: off by one in the base case, a one-element range links nothing
RECURSIVE bst_link_balanced_drops_single(_, _, _, _)
bst_link_balanced_drops_single(h, arr, lo, hi) ==
    IF hi <= lo THEN [heap |-> h, root |-> NULL]
    ELSE LET mid == lo + (hi - lo) \div 2
             root == arr[mid + 1]
             l == bst_link_balanced_drops_single(h, arr, lo, mid - 1)
             h1 == [l.heap EXCEPT ![root].left = l.root]
             r == bst_link_balanced_drops_single(h1, arr, mid + 1, hi)
             h2 == [r.heap EXCEPT ![root].right = r.root]
         IN  [heap |-> h2, root |-> root]

\* bug variant: the local subroot is the first element of the range
RECURSIVE bst_link_balanced_mid_lo(_, _, _, _)
bst_link_balanced_mid_lo(h, arr, lo, hi) ==
    IF hi < lo THEN [heap |-> h, root |-> NULL]
    ELSE LET mid == lo
             root == arr[mid + 1]
             l == bst_link_balanced_mid_lo(h, arr, lo, mid - 1)
             h1 == [l.heap EXCEPT ![root].left = l.root]
             r == bst_link_balanced_mid_lo(h1, arr, mid + 1, hi)
             h2 == [r.heap EXCEPT ![root].right = r.root]
         IN  [heap |-> h2, root |-> root]

\* bug variant: the local subroot is the last element of the range
RECURSIVE bst_link_balanced_mid_hi(_, _, _, _)
bst_link_balanced_mid_hi(h, arr, lo, hi) ==
    IF hi < lo THEN [heap |-> h, root |-> NULL]
    ELSE LET mid == hi
             root == arr[mid + 1]
             l == bst_link_balanced_mid_hi(h, arr, lo, mid - 1)
             h1 == [l.heap EXCEPT ![root].left = l.root]
             r == bst_link_balanced_mid_hi(h1, arr, mid + 1, hi)
             h2 == [r.heap EXCEPT ![root].right = r.root]
         IN  [heap |-> h2, root |-> root]

\* build balanced shape from arr[lo..hi] (0-based: arr[i] is nodes[i + 1])
RECURSIVE bst_link_balanced(_, _, _, _)
bst_link_balanced(h, arr, lo, hi) ==
    IF hi < lo THEN [heap |-> h, root |-> NULL]
    ELSE LET mid == lo + (hi - lo) \div 2
             root == arr[mid + 1]
             l == bst_link_balanced(h, arr, lo, mid - 1)
             h1 == [l.heap EXCEPT ![root].left = l.root]
             r == bst_link_balanced(h1, arr, mid + 1, hi)
             h2 == [r.heap EXCEPT ![root].right = r.root]
         IN  [heap |-> h2, root |-> root]

\* bug variant: the index is advanced before the first comparison, the
\* first element of the array is never looked at
RECURSIVE root_index_skips_first(_, _, _, _)
root_index_skips_first(nodes, n, tree, r) ==
    LET r1 == r + 1
    IN  IF r1 < n /\ nodes[r1 + 1] # tree
        THEN root_index_skips_first(nodes, n, tree, r1) ELSE r1

\* lines 410-411: while (r < n && nodes[r] != tree) ++r;
RECURSIVE root_index(_, _, _, _)
root_index(nodes, n, tree, r) ==
    IF r < n /\ nodes[r + 1] # tree THEN root_index(nodes, n, tree, r + 1) ELSE r

\* bug variant: the rebuilt halves are attached, then the payload of the
\* middle node of the sequence is moved into the root (payloads travel
\* between node objects instead of the links alone being rewritten)
bin_search_tree_rebalance_moves_payload(h, tree) ==
    IF is_bin_search_tree_null(tree) THEN Exit(h, BINARY_SEARCH_TREE_NOT_INITIALIZED)
    ELSE IF h[tree].data = NULLDATA THEN
        IF h[tree].left # NULL \/ h[tree].right # NULL
        THEN Exit(h, MALFORMED_BINARY_SEARCH_TREE)
        ELSE Done(h, <<>>)
    ELSE
    LET c == bst_count_nodes(h, tree)
        n == c.count
    IN  IF c.exit # 0 THEN Exit(h, c.exit)
        ELSE IF n <= 1 THEN Done(h, <<>>)
        ELSE
        LET nodes == bst_fill_nodes_inorder(h, tree)
            r == root_index(nodes, n, tree, 0)
        IN  IF r = n THEN Exit(h, MALFORMED_BINARY_SEARCH_TREE)
            ELSE
            LET nl == IF r > 0 THEN bst_link_balanced(h, nodes, 0, r - 1)
                      ELSE [heap |-> h, root |-> NULL]
                nr == IF r + 1 < n THEN bst_link_balanced(nl.heap, nodes, r + 1, n - 1)
                      ELSE [heap |-> nl.heap, root |-> NULL]
                h1 == [nr.heap EXCEPT ![tree].left = nl.root, ![tree].right = nr.root]
            IN  Done(bst_swap_payload(h1, tree, nodes[(n - 1) \div 2 + 1]), <<>>)

\* bug variant: the rebuilt halves are attached on the wrong sides
bin_search_tree_rebalance_swaps_sides(h, tree) ==
    IF is_bin_search_tree_null(tree) THEN Exit(h, BINARY_SEARCH_TREE_NOT_INITIALIZED)
    ELSE IF h[tree].data = NULLDATA THEN
        IF h[tree].left # NULL \/ h[tree].right # NULL
        THEN Exit(h, MALFORMED_BINARY_SEARCH_TREE)
        ELSE Done(h, <<>>)
    ELSE
    LET c == bst_count_nodes(h, tree)
        n == c.count
    IN  IF c.exit # 0 THEN Exit(h, c.exit)
        ELSE IF n <= 1 THEN Done(h, <<>>)
        ELSE
        LET nodes == bst_fill_nodes_inorder(h, tree)
            r == root_index(nodes, n, tree, 0)
        IN  IF r = n THEN Exit(h, MALFORMED_BINARY_SEARCH_TREE)
            ELSE
            LET nl == IF r > 0 THEN bst_link_balanced(h, nodes, 0, r - 1)
                      ELSE [heap |-> h, root |-> NULL]
                nr == IF r + 1 < n THEN bst_link_balanced(nl.heap, nodes, r + 1, n - 1)
                      ELSE [heap |-> nl.heap, root |-> NULL]
            IN  Done([nr.heap EXCEPT ![tree].left = nr.root,
                                     ![tree].right = nl.root], <<>>)

\* bin_search_tree_rebalance, lines 384-426
bin_search_tree_rebalance(h, tree) ==
    IF is_bin_search_tree_null(tree) THEN Exit(h, BINARY_SEARCH_TREE_NOT_INITIALIZED)
    ELSE IF h[tree].data = NULLDATA THEN
        IF h[tree].left # NULL \/ h[tree].right # NULL
        THEN Exit(h, MALFORMED_BINARY_SEARCH_TREE)
        ELSE Done(h, <<>>)
    ELSE
    LET c == bst_count_nodes(h, tree)
        n == c.count
    IN  IF c.exit # 0 THEN Exit(h, c.exit)
        ELSE IF n <= 1 THEN Done(h, <<>>)
        ELSE
        LET nodes == bst_fill_nodes_inorder(h, tree)
            r == root_index(nodes, n, tree, 0)
        IN  IF r = n THEN Exit(h, MALFORMED_BINARY_SEARCH_TREE)
            ELSE
            LET nl == IF r > 0 THEN bst_link_balanced(h, nodes, 0, r - 1)
                      ELSE [heap |-> h, root |-> NULL]
                nr == IF r + 1 < n THEN bst_link_balanced(nl.heap, nodes, r + 1, n - 1)
                      ELSE [heap |-> nl.heap, root |-> NULL]
            IN  Done([nr.heap EXCEPT ![tree].left = nl.root,
                                     ![tree].right = nr.root], <<>>)

(* ------------------------------- destroy ------------------------------ *)
\* bug variant: without a callback the payloads are not released (only the
\* nodes are freed)
RECURSIVE binary_search_tree_destroy_no_callback_leaks(_, _, _)
binary_search_tree_destroy_no_callback_leaks(h, tree, deep_free) ==
    IF tree = NULL THEN Done(h, <<>>)
    ELSE LET l == binary_search_tree_destroy_no_callback_leaks(h, h[tree].left, deep_free)
             r == binary_search_tree_destroy_no_callback_leaks(l.heap, l.heap[tree].right,
                                                               deep_free)
             rel == IF r.heap[tree].data # NULLDATA /\ deep_free # NULL
                    THEN release(deep_free, r.heap[tree].data)
                    ELSE <<>>
         IN  Done(Free(r.heap, tree), l.released \o r.released \o rel)

\* binary_search_tree_destroy, lines 362-376 (post-order)
RECURSIVE binary_search_tree_destroy(_, _, _)
binary_search_tree_destroy(h, tree, deep_free) ==
    IF tree = NULL THEN Done(h, <<>>)
    ELSE LET l == binary_search_tree_destroy(h, h[tree].left, deep_free)
             r == binary_search_tree_destroy(l.heap, l.heap[tree].right, deep_free)
             rel == IF r.heap[tree].data # NULLDATA
                    THEN release(deep_free, r.heap[tree].data)
                    ELSE <<>>
         IN  Done(Free(r.heap, tree), l.released \o r.released \o rel)

(* ----------------------------- pretty print --------------------------- *)
\* bug variant: an absent handle is a no-op with a warning, as in destroy
bin_search_tree_pretty_print_absent_noop(h, tree, print_data) ==
    IF is_bin_search_tree_null(tree) THEN Done(h, <<>>)
    ELSE IF h[tree].data = NULLDATA THEN
        IF h[tree].left # NULL \/ h[tree].right # NULL
        THEN Exit(h, MALFORMED_BINARY_SEARCH_TREE)
        ELSE Done(h, <<>>)
    ELSE Done(h, <<>>)

\* bin_search_tree_pretty_print, lines 430-452: the guards; the printing
\* itself (bst_print_node_line, bst_print_rec) reads the nodes and writes
\* to stdout only
bin_search_tree_pretty_print(h, tree, print_data) ==
    IF is_bin_search_tree_null(tree) THEN Exit(h, BINARY_SEARCH_TREE_NOT_INITIALIZED)
    ELSE IF h[tree].data = NULLDATA THEN
        IF h[tree].left # NULL \/ h[tree].right # NULL
        THEN Exit(h, MALFORMED_BINARY_SEARCH_TREE)
        ELSE Done(h, <<>>)
    ELSE Done(h, <<>>)

(* --------------------- the callers' view of a tree --------------------- *)
\* bst_height of the tests: edges on the longest path; -1 for NULL / sentinel
RECURSIVE bst_height(_, _)
bst_height(h, n) ==
    IF n = NULL THEN 0 - 1
    ELSE IF h[n].data = NULLDATA THEN 0 - 1
    ELSE LET lh == bst_height(h, h[n].left)
             rh == bst_height(h, h[n].right)
         IN  (IF lh > rh THEN lh ELSE rh) + 1

\* nodes reachable from a set of nodes over left/right links (allocated only)
RECURSIVE ReachSet(_, _, _)
ReachSet(h, front, seen) ==
    IF front = {} THEN seen
    ELSE LET seen2 == seen \cup front
             nxt == ({h[a].left : a \in front} \cup {h[a].right : a \in front})
                    \cap DOMAIN h
         IN  ReachSet(h, nxt \ seen2, seen2)

Reach(h, n) == ReachSet(h, {n} \cap DOMAIN h, {})

\* payload-bearing nodes reachable from n
Holders(h, n) == {a \in Reach(h, n) : h[a].data # NULLDATA}

\* in-order walk over allocated nodes; fuel bounds the depth
RECURSIVE InOrderNodes(_, _, _)
InOrderNodes(h, n, fuel) ==
    IF n \notin DOMAIN h \/ fuel = 0 THEN <<>>
    ELSE InOrderNodes(h, h[n].left, fuel - 1) \o <<n>>
         \o InOrderNodes(h, h[n].right, fuel - 1)

\* the payloads met by the in-order walk from n
InOrderData(h, n) ==
    LET ns == InOrderNodes(h, n, Cardinality(DOMAIN h))
        ps == [i \in DOMAIN ns |-> h[ns[i]].data]
    IN  SelectSeq(ps, LAMBDA d : d # NULLDATA)

\* how many reachable nodes hold buffer b
RefCount(h, n, b) == Cardinality({a \in Reach(h, n) : h[a].data = b})

\* where key v sits before a delete: number of children, and whether at the root
LocateCase(h, t, v) ==
    LET at == {a \in Holders(h, t) : h[a].data[1] = v}
    IN  IF at = {} THEN [children |-> "none", root |-> FALSE]
        ELSE LET a == CHOOSE x \in at : TRUE
                 c == (IF h[a].left # NULL THEN 1 ELSE 0)
                      + (IF h[a].right # NULL THEN 1 ELSE 0)
             IN  [children |-> IF c = 0 THEN "leaf" ELSE IF c = 1 THEN "one" ELSE "two",
                  root |-> a = t]

NoCase == [children |-> "none", root |-> FALSE]

RECURSIVE FloorLog2(_)
FloorLog2(n) == IF n <= 1 THEN 0 ELSE 1 + FloorLog2(n \div 2)

(* ------------------------------- state -------------------------------- *)
VARIABLES
    tree,       \* the handle the caller holds (BinarySearchTree t)
    heap,       \* allocated nodes: address -> fields
    live,       \* payload buffers malloc'ed by the caller and not yet freed
    ret,        \* return value of the last call (a node address or NULL)
    released,   \* payloads the last call handed to deep_free / free, in order
    exit_code,  \* 0 while the process runs, else the status passed to exit()
    op,         \* the last call: its name, its data argument and (history)
                \* where a delete found its key
    keys,       \* history: contents inserted and not deleted since
    adopted,    \* history: buffers adopted by insert and not yet released
    args,       \* the last call's other arguments: the handle, the
                \* comparator and the size it was given
    run         \* the call in progress when a call is followed statement by
                \* statement: its position, arguments and local variables

vars == <<tree, heap, live, ret, released, exit_code, op, keys, adopted, args, run>>

\* no call in progress
Idle == [pc |-> "idle", name |-> "none", data |-> NULLDATA, curr |-> NULL,
         at |-> NULL, succ |-> NULL, r |-> 0, frames |-> <<>>]

\* the argument record of a call (NULL / 0 where the call has no such argument)
Args(t, compare, data_size) == [tree |-> t, compare |-> compare, data_size |-> data_size]

Range(s) == {s[i] : i \in DOMAIN s}

\* make_int(v) of the callers: a fresh heap buffer holding v (lowest free tag)
FreeTags(v) == {c \in Tags : <<v, c>> \notin live}
make_int(v) == <<v, CHOOSE c \in FreeTags(v) : \A d \in FreeTags(v) : c <= d>>

\* &(int){v}: a key on the caller's stack, never owned by the tree
StackKey(v) == <<v, 0>>

\* BinarySearchTree t = bin_search_tree_build_empty();
Init ==
    LET b == bin_search_tree_build_empty(<<>>)
    IN  /\ tree = b.ret
        /\ heap = b.heap
        /\ live = {}
        /\ ret = b.ret
        /\ released = <<>>
        /\ exit_code = b.exit
        /\ op = [name |-> "build_empty", data |-> NULLDATA, at |-> NoCase]
        /\ keys = {}
        /\ adopted = {}
        /\ args = Args(NULL, NULL, 0)
        /\ run = Idle

\* p = make_int(k); bin_search_tree_insert_node(t, p, size, cmp);
\* the caller frees p itself when the returned node does not hold it.
Insert(k) ==
    /\ exit_code = 0
    /\ FreeTags(k) # {}
    /\ LET p == make_int(k)
           r == bin_search_tree_insert_node(heap, tree, p, SizeOf(p), INT_PTR_COMPARE)
       IN  /\ heap' = r.heap
           /\ ret' = r.ret
           /\ released' = r.released
           /\ exit_code' = r.exit
           /\ live' = IF r.exit = 0 /\ r.heap[r.ret].data = p
                      THEN live \cup {p} ELSE live
           /\ op' = [name |-> "insert", data |-> p, at |-> NoCase]
           /\ keys' = keys \cup {k}
           /\ adopted' = IF k \in keys THEN adopted ELSE adopted \cup {p}
           /\ args' = Args(tree, INT_PTR_COMPARE, SizeOf(p))
    /\ UNCHANGED tree

\* bin_search_tree_contains(t, &key, cmp)
Contains(k) ==
    /\ exit_code = 0
    /\ LET r == bin_search_tree_contains(heap, tree, StackKey(k), INT_PTR_COMPARE)
       IN  /\ ret' = r.ret
           /\ released' = r.released
           /\ exit_code' = r.exit
           /\ op' = [name |-> "contains", data |-> StackKey(k), at |-> NoCase]
           /\ args' = Args(tree, INT_PTR_COMPARE, 0)
    /\ UNCHANGED <<tree, heap, live, keys, adopted>>

\* bin_search_tree_delete_node(t, &key, cmp, deep_free)
Delete(k, deep_free) ==
    /\ exit_code = 0
    /\ LET r == bin_search_tree_delete_node(heap, tree, StackKey(k),
                                            INT_PTR_COMPARE, deep_free)
       IN  /\ heap' = r.heap
           /\ ret' = r.ret
           /\ released' = r.released
           /\ exit_code' = r.exit
           /\ live' = live \ Range(r.released)
           /\ op' = [name |-> "delete", data |-> StackKey(k),
                  at |-> LocateCase(heap, tree, k)]
           /\ keys' = keys \ {k}
           /\ adopted' = adopted \ Range(r.released)
           /\ args' = Args(tree, INT_PTR_COMPARE, 0)
    /\ UNCHANGED tree

\* bin_search_tree_rebalance(t)
Rebalance ==
    /\ exit_code = 0
    /\ LET r == bin_search_tree_rebalance(heap, tree)
       IN  /\ heap' = r.heap
           /\ ret' = r.ret
           /\ released' = r.released
           /\ exit_code' = r.exit
           /\ op' = [name |-> "rebalance", data |-> NULLDATA, at |-> NoCase]
           /\ args' = Args(tree, NULL, 0)
    /\ UNCHANGED <<tree, live, keys, adopted>>

Next ==
    \/ \E k \in Keys : Insert(k) /\ UNCHANGED run
    \/ \E k \in Keys : Contains(k) /\ UNCHANGED run
    \/ \E k \in Keys, f \in {NULL, FREE_COUNTER} : Delete(k, f) /\ UNCHANGED run
    \/ Rebalance /\ UNCHANGED run

Spec == Init /\ [][Next]_vars

(* ------ the whole interface, absent arguments and teardown included ------ *)
\* the handle the caller holds still designates a node (it was not destroyed)
Alive == exit_code = 0 /\ tree \in DOMAIN heap

\* the handles a caller can pass: none, or the one it holds
Handles == {NULL} \cup ({tree} \cap DOMAIN heap)

\* bin_search_tree_find_min(n): on the handle, on a subtree, or on no handle
FindMin(n) ==
    /\ exit_code = 0
    /\ LET r == bin_search_tree_find_min(heap, n)
       IN  /\ ret' = r.ret
           /\ released' = r.released
           /\ exit_code' = r.exit
           /\ op' = [name |-> "find_min", data |-> NULLDATA, at |-> NoCase]
           /\ args' = Args(n, NULL, 0)
    /\ UNCHANGED <<tree, heap, live, keys, adopted>>

\* bin_search_tree_find_max(n)
FindMax(n) ==
    /\ exit_code = 0
    /\ LET r == bin_search_tree_find_max(heap, n)
       IN  /\ ret' = r.ret
           /\ released' = r.released
           /\ exit_code' = r.exit
           /\ op' = [name |-> "find_max", data |-> NULLDATA, at |-> NoCase]
           /\ args' = Args(n, NULL, 0)
    /\ UNCHANGED <<tree, heap, live, keys, adopted>>

\* bin_search_tree_pretty_print(t, print_data)
PrettyPrint(t, print_data) ==
    /\ exit_code = 0
    /\ LET r == bin_search_tree_pretty_print(heap, t, print_data)
       IN  /\ heap' = r.heap
           /\ ret' = r.ret
           /\ released' = r.released
           /\ exit_code' = r.exit
           /\ op' = [name |-> "pretty_print", data |-> NULLDATA, at |-> NoCase]
           /\ args' = Args(t, NULL, 0)
    /\ UNCHANGED <<tree, live, keys, adopted>>

\* binary_search_tree_destroy(t, deep_free); the caller's variable keeps the
\* (now dangling) address and is not used for a tree call again
Destroy(t, deep_free) ==
    /\ exit_code = 0
    /\ LET r == binary_search_tree_destroy(heap, t, deep_free)
       IN  /\ heap' = r.heap
           /\ ret' = r.ret
           /\ released' = r.released
           /\ exit_code' = r.exit
           /\ live' = live \ Range(r.released)
           /\ op' = [name |-> "destroy", data |-> NULLDATA, at |-> NoCase]
           /\ keys' = IF t = NULL THEN keys ELSE {}
           /\ adopted' = adopted \ Range(r.released)
           /\ args' = Args(t, NULL, 0)
    /\ UNCHANGED tree

\* bin_search_tree_rebalance(NULL)
RebalanceAbsent ==
    /\ exit_code = 0
    /\ LET r == bin_search_tree_rebalance(heap, NULL)
       IN  /\ heap' = r.heap
           /\ ret' = r.ret
           /\ released' = r.released
           /\ exit_code' = r.exit
           /\ op' = [name |-> "rebalance", data |-> NULLDATA, at |-> NoCase]
           /\ args' = Args(NULL, NULL, 0)
    /\ UNCHANGED <<tree, live, keys, adopted>>

\* bin_search_tree_insert_node with an absent handle, payload or comparator,
\* or a zero size
InsertInvalid(t, data, data_size, compare) ==
    /\ exit_code = 0
    /\ t = NULL \/ data = NULLDATA \/ data_size = 0 \/ compare = NULL
    /\ LET r == bin_search_tree_insert_node(heap, t, data, data_size, compare)
       IN  /\ heap' = r.heap
           /\ ret' = r.ret
           /\ released' = r.released
           /\ exit_code' = r.exit
           /\ live' = IF r.exit = 0 /\ data # NULLDATA
                         /\ \E a \in DOMAIN r.heap : r.heap[a].data = data
                      THEN live \cup {data} ELSE live
           /\ op' = [name |-> "insert", data |-> data, at |-> NoCase]
           /\ args' = Args(t, compare, data_size)
    /\ UNCHANGED <<tree, keys, adopted>>

\* bin_search_tree_contains with an absent handle, key or comparator
ContainsInvalid(t, data, compare) ==
    /\ exit_code = 0
    /\ t = NULL \/ data = NULLDATA \/ compare = NULL
    /\ LET r == bin_search_tree_contains(heap, t, data, compare)
       IN  /\ ret' = r.ret
           /\ released' = r.released
           /\ exit_code' = r.exit
           /\ op' = [name |-> "contains", data |-> data, at |-> NoCase]
           /\ args' = Args(t, compare, 0)
    /\ UNCHANGED <<tree, heap, live, keys, adopted>>

\* bin_search_tree_delete_node with an absent handle, key or comparator
DeleteInvalid(t, data, compare, deep_free) ==
    /\ exit_code = 0
    /\ t = NULL \/ data = NULLDATA \/ compare = NULL
    /\ LET r == bin_search_tree_delete_node(heap, t, data, compare, deep_free)
       IN  /\ heap' = r.heap
           /\ ret' = r.ret
           /\ released' = r.released
           /\ exit_code' = r.exit
           /\ live' = live \ Range(r.released)
           /\ op' = [name |-> "delete", data |-> data, at |-> NoCase]
           /\ args' = Args(t, compare, 0)
    /\ UNCHANGED <<tree, keys, adopted>>

\* the payload arguments of an insert: none, or a fresh buffer
InsertPayloads == {NULLDATA} \cup {make_int(k) : k \in {j \in LifeKeys : FreeTags(j) # {}}}

\* the key arguments of contains and delete: none, or a key on the stack
KeyPointers == {NULLDATA} \cup {StackKey(k) : k \in LifeKeys}

Comparators == {NULL, INT_PTR_COMPARE}
Callbacks   == {NULL, FREE_COUNTER}

NextLifecycle ==
    \/ \E k \in LifeKeys : Alive /\ Insert(k) /\ UNCHANGED run
    \/ \E k \in LifeKeys : Alive /\ Contains(k) /\ UNCHANGED run
    \/ \E k \in LifeKeys, f \in Callbacks : Alive /\ Delete(k, f) /\ UNCHANGED run
    \/ Alive /\ Rebalance /\ UNCHANGED run
    \/ RebalanceAbsent /\ UNCHANGED run
    \/ \E n \in {NULL} \cup Reach(heap, tree) : FindMin(n) /\ UNCHANGED run
    \/ \E n \in {NULL} \cup Reach(heap, tree) : FindMax(n) /\ UNCHANGED run
    \/ \E t \in Handles, pd \in Callbacks : PrettyPrint(t, pd) /\ UNCHANGED run
    \/ \E t \in Handles, f \in Callbacks : Destroy(t, f) /\ UNCHANGED run
    \/ \E t \in Handles, p \in InsertPayloads, c \in Comparators :
          \E sz \in {0, SizeOf(p)} : InsertInvalid(t, p, sz, c) /\ UNCHANGED run
    \/ \E t \in Handles, d \in KeyPointers, c \in Comparators : ContainsInvalid(t, d, c) /\ UNCHANGED run
    \/ \E t \in Handles, d \in KeyPointers, c \in Comparators, f \in Callbacks :
          DeleteInvalid(t, d, c, f) /\ UNCHANGED run

SpecLifecycle == Init /\ [][NextLifecycle]_vars

(* --------- skewed trees of up to SkewMax nodes, then rebalance ---------- *)
\* the calls insert(t, make_int(ks[1])), insert(t, make_int(ks[2])), ...
RECURSIVE InsertAll(_, _, _)
InsertAll(r, t, ks) ==
    IF ks = <<>> THEN r
    ELSE InsertAll(bin_search_tree_insert_node(r.heap, t, <<Head(ks), 1>>,
                                               SizeOf(<<Head(ks), 1>>), INT_PTR_COMPARE),
                   t, Tail(ks))

Ascending(lo, hi)  == [i \in 1..(hi - lo + 1) |-> lo + i - 1]
Descending(lo, hi) == [i \in 1..(hi - lo + 1) |-> hi - i + 1]

\* insertion orders that put key rk at the root of a tree holding 1..n
SkewOrders(n, rk) ==
    {<<rk>> \o l \o r : l \in {Ascending(1, rk - 1), Descending(1, rk - 1)},
                        r \in {Ascending(rk + 1, n), Descending(rk + 1, n)}}

InitSkewed ==
    \E n \in 1..SkewMax : \E rk \in 1..n : \E ks \in SkewOrders(n, rk) :
        LET b == bin_search_tree_build_empty(<<>>)
            r == InsertAll(b, b.ret, ks)
        IN  /\ tree = b.ret
            /\ heap = r.heap
            /\ live = {<<k, 1>> : k \in 1..n}
            /\ ret = r.ret
            /\ released = <<>>
            /\ exit_code = r.exit
            /\ op = [name |-> "insert", data |-> <<ks[Len(ks)], 1>>, at |-> NoCase]
            /\ keys = 1..n
            /\ adopted = {<<k, 1>> : k \in 1..n}
            /\ args = Args(b.ret, INT_PTR_COMPARE, SizeOf(<<ks[Len(ks)], 1>>))
            /\ run = Idle

SpecSkewed == InitSkewed /\ [][Rebalance /\ UNCHANGED run]_vars

(* ---- one call followed statement by statement: loops and recursion ---- *)
\* insertion orders of distinct keys: the trees a caller has built
Orders ==
    {ks \in UNION {[1..n -> RunKeys] : n \in 0..MaxRunKey} :
        \A i \in DOMAIN ks : \A j \in DOMAIN ks : i # j => ks[i] # ks[j]}

InitRun ==
    \E ks \in Orders :
        LET b == bin_search_tree_build_empty(<<>>)
            r == InsertAll(b, b.ret, ks)
            last == IF ks = <<>> THEN NULLDATA ELSE <<ks[Len(ks)], 1>>
        IN  /\ tree = b.ret
            /\ heap = r.heap
            /\ live = {<<k, 1>> : k \in Range(ks)}
            /\ ret = r.ret
            /\ released = <<>>
            /\ exit_code = r.exit
            /\ op = IF ks = <<>>
                    THEN [name |-> "build_empty", data |-> NULLDATA, at |-> NoCase]
                    ELSE [name |-> "insert", data |-> last, at |-> NoCase]
            /\ keys = Range(ks)
            /\ adopted = {<<k, 1>> : k \in Range(ks)}
            /\ args = IF ks = <<>> THEN Args(NULL, NULL, 0)
                      ELSE Args(b.ret, INT_PTR_COMPARE, SizeOf(last))
            /\ run = Idle

\* a statement of the call in progress that changes its local variables only
Local(r) ==
    /\ run' = r
    /\ UNCHANGED <<tree, heap, live, ret, released, exit_code, op, keys, adopted, args>>

\* the loops and the recursion are over: what is left is straight-line code
Leave == Local([run EXCEPT !.pc = "return"])

\* where a call with valid arguments stands after its argument and sentinel
\* checks (lines 64-84, 108-134, 178-199, 327-335, 341-349, 363-366, 385-398)
Entry(name) ==
    IF name \in {"contains", "insert"} THEN "descend"
    ELSE IF name = "destroy" THEN "destroy"
    ELSE IF heap[tree].data = NULLDATA THEN "return"
    ELSE IF name = "delete" THEN "locate"
    ELSE IF name = "rebalance" THEN "count"
    ELSE name

\* the caller calls name(tree, data, ...) on the tree it built
Call(name, data) ==
    /\ run.pc = "idle"
    /\ exit_code = 0
    /\ tree \in DOMAIN heap
    /\ Local([Idle EXCEPT !.pc = Entry(name), !.name = name, !.data = data,
                          !.curr = tree,
                          !.frames = IF name \in {"rebalance", "destroy"}
                                     THEN <<tree>> ELSE <<>>])

\* one level of the recursion of contains (lines 77-89) and insert (lines
\* 125-157): return here, or recurse on a child
DescendStep ==
    /\ run.pc = "descend"
    /\ LET n == run.curr
       IN  IF heap[n].data = NULLDATA THEN Leave
           ELSE LET cmp == int_ptr_compare(run.data, heap[n].data)
                    child == IF cmp < 0 THEN heap[n].left ELSE heap[n].right
                IN  IF cmp = 0 \/ child = NULL THEN Leave
                    ELSE Local([run EXCEPT !.curr = child])

\* one iteration of the loop of lines 205-222; on a match (break) a node
\* with two children goes on to find_min(curr->right), line 295
LocateStep ==
    /\ run.pc = "locate"
    /\ LET n == run.curr
       IN  IF heap[n].data = NULLDATA THEN Leave
           ELSE LET cmp == int_ptr_compare(run.data, heap[n].data)
                    child == IF cmp < 0 THEN heap[n].left ELSE heap[n].right
                IN  IF cmp = 0
                    THEN IF heap[n].left = NULL \/ heap[n].right = NULL THEN Leave
                         ELSE Local([run EXCEPT !.pc = "find_min", !.at = n,
                                                !.curr = heap[n].right])
                    ELSE IF child = NULL THEN Leave
                    ELSE Local([run EXCEPT !.curr = child])

\* one test of the loop of line 336; inside delete its result is succ, and
\* lines 297-299 start the walk at curr->right when succ is not that node
FindMinStep ==
    /\ run.pc = "find_min"
    /\ LET cur == run.curr
       IN  IF heap[cur].left # NULL THEN Local([run EXCEPT !.curr = heap[cur].left])
           ELSE IF run.name = "delete" /\ cur # heap[run.at].right
           THEN Local([run EXCEPT !.pc = "succ_parent", !.succ = cur,
                                  !.curr = heap[run.at].right])
           ELSE Leave

\* bug variant: the walk does not advance
succ_parent_next_stays(h, succ_parent) == succ_parent

\* line 301: succ_parent = succ_parent->left
succ_parent_next(h, succ_parent) == h[succ_parent].left

\* one test of the loop of lines 300-302
SuccParentStep ==
    /\ run.pc = "succ_parent"
    /\ IF heap[run.curr].left # run.succ
       THEN Local([run EXCEPT !.curr = succ_parent_next(heap, run.curr)])
       ELSE Leave

\* one test of the loop of line 350
FindMaxStep ==
    /\ run.pc = "find_max"
    /\ LET cur == run.curr
       IN  IF heap[cur].right # NULL THEN Local([run EXCEPT !.curr = heap[cur].right])
           ELSE Leave

\* one call of bst_count_nodes (lines 457-467): the head of frames is the
\* call that runs, the calls it makes replace it; when none is left, line
\* 398 returns or line 407 starts the traversal
CountStep ==
    /\ run.pc = "count"
    /\ LET n == Head(run.frames)
           calls == IF n = NULL \/ heap[n].data = NULLDATA THEN <<>>
                    ELSE <<heap[n].left, heap[n].right>>
           fr == calls \o Tail(run.frames)
       IN  IF n # NULL /\ heap[n].data = NULLDATA
              /\ (heap[n].left # NULL \/ heap[n].right # NULL) THEN Leave
           ELSE IF fr # <<>> THEN Local([run EXCEPT !.frames = fr])
           ELSE IF bst_count_nodes(heap, tree).count <= 1 THEN Leave
           ELSE Local([run EXCEPT !.pc = "fill", !.frames = <<tree>>])

\* one call of bst_fill_nodes_inorder (lines 470-475); when none is left the
\* scan of line 411 starts at r = 0
FillStep ==
    /\ run.pc = "fill"
    /\ LET n == Head(run.frames)
           calls == IF n = NULL THEN <<>> ELSE <<heap[n].left, heap[n].right>>
           fr == calls \o Tail(run.frames)
       IN  IF fr # <<>> THEN Local([run EXCEPT !.frames = fr])
           ELSE Local([run EXCEPT !.pc = "scan", !.r = 0, !.frames = <<>>])

\* one test of the loop of line 411; on exit line 412 leaves, or lines
\* 418-419 call bst_link_balanced on the ranges left and right of the root
ScanStep ==
    /\ run.pc = "scan"
    /\ LET nodes == bst_fill_nodes_inorder(heap, tree)
           n == Len(nodes)
           r == run.r
       IN  IF r < n /\ nodes[r + 1] # tree THEN Local([run EXCEPT !.r = r + 1])
           ELSE IF r = n THEN Leave
           ELSE Local([run EXCEPT !.pc = "link",
                          !.frames = (IF r > 0 THEN <<<<0, r - 1>>>> ELSE <<>>)
                                     \o (IF r + 1 < n THEN <<<<r + 1, n - 1>>>> ELSE <<>>)])

\* the calls one call of bst_link_balanced(arr, lo, hi) makes, lines 479-483
link_calls(lo, hi) ==
    IF hi < lo THEN <<>>
    ELSE LET mid == lo + (hi - lo) \div 2
         IN  <<<<lo, mid - 1>>, <<mid + 1, hi>>>>

\* one call of bst_link_balanced
LinkStep ==
    /\ run.pc = "link"
    /\ LET fr == link_calls(Head(run.frames)[1], Head(run.frames)[2]) \o Tail(run.frames)
       IN  IF fr # <<>> THEN Local([run EXCEPT !.frames = fr]) ELSE Leave

\* one call of binary_search_tree_destroy: lines 363-369
DestroyStep ==
    /\ run.pc = "destroy"
    /\ LET n == Head(run.frames)
           calls == IF n = NULL THEN <<>> ELSE <<heap[n].left, heap[n].right>>
           fr == calls \o Tail(run.frames)
       IN  IF fr # <<>> THEN Local([run EXCEPT !.frames = fr]) ELSE Leave

\* the rest of the call: its effect on the tree and its result
Return ==
    /\ run.pc = "return"
    /\ run' = [Idle EXCEPT !.pc = "done", !.name = run.name]
    /\ \/ run.name = "contains" /\ Contains(run.data[1])
       \/ run.name = "insert" /\ Insert(run.data[1])
       \/ run.name = "delete" /\ \E f \in Callbacks : Delete(run.data[1], f)
       \/ run.name = "find_min" /\ FindMin(tree)
       \/ run.name = "find_max" /\ FindMax(tree)
       \/ run.name = "rebalance" /\ Rebalance
       \/ run.name = "destroy" /\ \E f \in Callbacks : Destroy(tree, f)

\* the loops and the recursive calls of the call in progress
LoopStep ==
    \/ DescendStep
    \/ LocateStep
    \/ FindMinStep
    \/ SuccParentStep
    \/ FindMaxStep
    \/ CountStep
    \/ FillStep
    \/ ScanStep
    \/ LinkStep
    \/ DestroyStep

NextRun ==
    \/ \E k \in RunKeys : Call("contains", StackKey(k))
    \/ \E k \in RunKeys : FreeTags(k) # {} /\ Call("insert", make_int(k))
    \/ \E k \in RunKeys : Call("delete", StackKey(k))
    \/ \E name \in {"find_min", "find_max", "rebalance", "destroy"} : Call(name, NULLDATA)
    \/ LoopStep
    \/ Return

\* the code is single-threaded and synchronous: a call that has started
\* keeps executing the statements of its loops and recursive calls
SpecRun == InitRun /\ [][NextRun]_vars /\ WF_vars(LoopStep)

(* ============================== properties ============================== *)
Cmp(a, b) == int_ptr_compare(a, b)

\* C1: after any sequence of insert, delete and rebalance calls the in-order
\* traversal yields payloads in strictly increasing comparator order; every
\* node's left subtree holds only smaller payloads and its right subtree only
\* larger ones, and no two nodes hold payloads that compare equal.
OrderInvariant ==
    LET seq == InOrderData(heap, tree)
        hs  == Holders(heap, tree)
    IN  /\ \A i \in 1..(Len(seq) - 1) : Cmp(seq[i], seq[i + 1]) < 0
        /\ \A n \in hs :
              /\ \A m \in Holders(heap, heap[n].left) :
                    Cmp(heap[m].data, heap[n].data) < 0
              /\ \A m \in Holders(heap, heap[n].right) :
                    Cmp(heap[m].data, heap[n].data) > 0
        /\ \A n \in hs : \A m \in hs \ {n} : Cmp(heap[n].data, heap[m].data) # 0

\* a two-children delete has just run on a tree that keeps three nodes
OrderWitness ==
    /\ op.name = "delete"
    /\ op.at.children = "two"
    /\ Len(InOrderData(heap, tree)) >= 3

\* C2: the node the handle designates is never deallocated and never
\* replaced, and every payload-bearing node (every adopted payload) stays
\* reachable from it, also after the root's own key was deleted.
RootIdentity ==
    /\ tree = bin_search_tree_build_empty(<<>>).ret
    /\ tree \in DOMAIN heap
    /\ \A a \in DOMAIN heap : heap[a].data # NULLDATA => a \in Reach(heap, tree)
    /\ \A b \in adopted : \E a \in Reach(heap, tree) : heap[a].data = b

\* the root's key was deleted as a leaf: the root is the sentinel again
RootLeafDeletedWitness ==
    /\ op.name = "delete"
    /\ op.at = [children |-> "leaf", root |-> TRUE]
    /\ tree \in DOMAIN heap
    /\ heap[tree].data = NULLDATA

RootOneChildDeletedWitness ==
    /\ op.name = "delete"
    /\ op.at = [children |-> "one", root |-> TRUE]

RootTwoChildrenDeletedWitness ==
    /\ op.name = "delete"
    /\ op.at = [children |-> "two", root |-> TRUE]

\* C3: contains(k) returns a node whose payload compares equal to k exactly
\* when k was inserted and not deleted since, and NULL otherwise.
ContainsRefinesKeySet ==
    \A k \in Keys :
        LET r == bin_search_tree_contains(heap, tree, StackKey(k), INT_PTR_COMPARE)
        IN  /\ r.exit = 0
            /\ IF k \in keys
               THEN /\ r.ret \in DOMAIN heap
                    /\ Cmp(StackKey(k), heap[r.ret].data) = 0
               ELSE r.ret = NULL

\* a key was deleted again while others stay: some keys found, some not
ContainsWitness ==
    /\ op.name = "contains"
    /\ ret # NULL
    /\ Cardinality(keys) >= 2
    /\ keys # Keys

\* the reachable node that holds key v (NULL when there is none)
HolderOf(h, t, v) ==
    LET at == {a \in Holders(h, t) : h[a].data[1] = v}
    IN  IF at = {} THEN NULL ELSE CHOOSE a \in at : TRUE

\* the last step was a call of that name, and its key was present before it
CalledOnPresent(name) == op'.name = name /\ op'.data[1] \in keys

\* the step of a duplicate insert
DuplicateInsertStep ==
    CalledOnPresent("insert") =>
        /\ exit_code' = 0
        /\ ret' = HolderOf(heap, tree, op'.data[1])
        /\ ret' # NULL
        /\ DOMAIN heap' = DOMAIN heap
        /\ heap' = heap
        /\ \A a \in DOMAIN heap' : heap'[a].data # op'.data
        /\ op'.data \notin live'

\* C4: inserting a payload that compares equal to a stored one returns the
\* node already holding the key, allocates no node, leaves every node's
\* payload, size and links unchanged, and no node references the offered
\* buffer afterwards.
DuplicateInsertIsNoOp == [][DuplicateInsertStep]_vars

\* a duplicate was offered to a tree of several nodes and was not adopted
DuplicateInsertWitness ==
    /\ op.name = "insert"
    /\ op.data \notin adopted
    /\ ret # NULL /\ ret # tree
    /\ Cardinality(keys) >= 2

\* the step of a delete that finds its key: counts
DeleteConservesStep ==
    CalledOnPresent("delete") =>
        /\ exit_code' = 0
        /\ Cardinality(Holders(heap', tree')) = Cardinality(Holders(heap, tree)) - 1
        /\ Len(released') = 1

\* C5: deleting a present key (leaf, one child or two children, at the root
\* or not) lowers the number of reachable payload-bearing nodes by exactly
\* one and releases exactly one payload.
DeleteConservation == [][DeleteConservesStep]_vars

\* a non-root node with two children has just been deleted
DeleteNonRootTwoChildrenWitness ==
    /\ op.name = "delete"
    /\ op.at = [children |-> "two", root |-> FALSE]
    /\ Len(released) = 1

\* the in-order successor of key v among the keys stored below t
SuccessorKey(h, t, v) ==
    LET above == {h[a].data[1] : a \in {x \in Holders(h, t) : h[x].data[1] > v}}
    IN  CHOOSE s \in above : \A u \in above : s <= u

\* the step of a delete that finds its key: which payload goes
DeleteReleasesLocatedStep ==
    CalledOnPresent("delete") =>
        LET v   == op'.data[1]
            loc == HolderOf(heap, tree, v)
        IN  /\ released' = <<heap[loc].data>>
            /\ Cmp(op'.data, released'[1]) = 0
            /\ (heap[loc].left # NULL /\ heap[loc].right # NULL) =>
                  /\ loc \in DOMAIN heap'
                  /\ heap'[loc].data
                       = heap[HolderOf(heap, tree, SuccessorKey(heap, tree, v))].data
            /\ \A u \in keys \ {v} :
                  LET r == bin_search_tree_contains(heap', tree', StackKey(u),
                                                    INT_PTR_COMPARE)
                  IN  /\ r.ret \in DOMAIN heap'
                      /\ heap'[r.ret].data = heap[HolderOf(heap, tree, u)].data

\* C6: the one payload a delete releases is the buffer that compared equal
\* to the key; in the two-children case the located node ends up holding its
\* in-order successor's payload; every other key stays findable.
DeleteReleasesLocatedPayload == [][DeleteReleasesLocatedStep]_vars

\* the root had two children and its key was deleted: it now holds another
\* payload, and the released one compares equal to the key
DeleteSwapWitness ==
    /\ op.name = "delete"
    /\ op.at = [children |-> "two", root |-> TRUE]
    /\ Len(released) = 1
    /\ released[1][1] = op.data[1]
    /\ heap[tree].data[1] > op.data[1]

\* ownership between calls
OwnershipState ==
    /\ \A b \in adopted : RefCount(heap, tree, b) = 1
    /\ \A a \in DOMAIN heap : heap[a].data = NULLDATA \/ heap[a].data \in adopted
    /\ \A i \in DOMAIN released : RefCount(heap, tree, released[i]) = 0
    /\ live = adopted

\* ownership across a call: what it may release
OwnershipStep ==
    /\ \A i \in DOMAIN released' : released'[i] \in adopted
    /\ \A i, j \in DOMAIN released' : released'[i] = released'[j] => i = j

\* C7: every buffer adopted by insert and not yet released is referenced by
\* exactly one reachable node; no node references a released buffer or any
\* buffer that was not adopted; no buffer is released twice.
PayloadOwnership == []OwnershipState /\ [][OwnershipStep]_vars

\* the root's payload was moved in from its only child
PayloadMovedWitness ==
    /\ op.name = "delete"
    /\ op.at = [children |-> "one", root |-> TRUE]
    /\ Len(released) = 1
    /\ heap[tree].data \in adopted

\* the multiset of payloads held by the nodes reachable from t
PayloadBag(h, t) ==
    [b \in {h[a].data : a \in Holders(h, t)} |-> RefCount(h, t, b)]

\* the step of a rebalance: content
RebalancePreservesStep ==
    op'.name = "rebalance" =>
        /\ exit_code' = 0
        /\ InOrderData(heap', tree') = InOrderData(heap, tree)
        /\ PayloadBag(heap', tree') = PayloadBag(heap, tree)
        /\ \A k \in Keys :
              LET r0 == bin_search_tree_contains(heap, tree, StackKey(k), INT_PTR_COMPARE)
                  r1 == bin_search_tree_contains(heap', tree', StackKey(k), INT_PTR_COMPARE)
              IN  r0.ret # NULL =>
                    /\ r1.ret \in DOMAIN heap'
                    /\ heap'[r1.ret].data = heap[r0.ret].data

\* C8: the multiset of payloads and their in-order sequence are the same
\* before and after rebalance, and every key contains found before the call
\* it finds after it (in a node holding the same payload).
RebalancePreservesContent == [][RebalancePreservesStep]_vars

\* rebalance has run on a full tree whose root is not its middle key
RebalanceContentWitness ==
    /\ op.name = "rebalance"
    /\ Len(InOrderData(heap, tree)) = MaxKey
    /\ heap[tree].data[1] = 1
    /\ heap[heap[tree].right].left # NULL

\* C9: after rebalance of n >= 1 nodes the longest root-to-leaf path has at
\* most 1 + floor(log2(n)) edges, wherever the root sits in the in-order
\* sequence (height <= 4 for 1..15 inserted in ascending order).
RebalancedHeightLogarithmic ==
    LET n == Cardinality(Holders(heap, tree))
    IN  (op.name = "rebalance" /\ n >= 1) =>
            bst_height(heap, tree) <= 1 + FloorLog2(n)

\* the tree built by inserting 1..15 in ascending order, rebalanced
RebalancedSkewedWitness ==
    /\ op.name = "rebalance"
    /\ InOrderData(heap, tree) = [i \in 1..15 |-> <<i, 1>>]
    /\ heap[tree].data[1] = 1
    /\ bst_height(heap, tree) = 4

\* the step of a rebalance: height
RebalanceHeightStep ==
    op'.name = "rebalance" => bst_height(heap', tree') <= bst_height(heap, tree)

\* C10: rebalance never increases the height of the tree.
RebalanceNeverRaisesHeight == [][RebalanceHeightStep]_vars

\* rebalance has run on a full tree and left it as low as it can be
RebalanceHeightWitness ==
    /\ op.name = "rebalance"
    /\ Cardinality(Holders(heap, tree)) = MaxKey
    /\ bst_height(heap, tree) = 1 + FloorLog2(MaxKey - 1)

\* the step of a rebalance: node objects and their payloads
RebalanceRelinksStep ==
    op'.name = "rebalance" =>
        /\ exit_code' = 0
        /\ released' = <<>>
        /\ tree' = tree
        /\ DOMAIN heap' = DOMAIN heap
        /\ Reach(heap', tree') = Reach(heap, tree)
        /\ \A a \in DOMAIN heap :
              /\ heap'[a].data = heap[a].data
              /\ heap'[a].data_size = heap[a].data_size

\* C11: rebalance relinks existing nodes only: it allocates and deallocates
\* no node, the set of node objects in the tree is the same before and after,
\* every node holds the same payload and size, the root node object is the
\* same, and only left/right links may differ.
RebalanceRelinksOnly == [][RebalanceRelinksStep]_vars

\* rebalance has run on a full tree whose root holds the largest key: the
\* whole left chain was relinked
RebalanceRelinkWitness ==
    /\ op.name = "rebalance"
    /\ Cardinality(Holders(heap, tree)) = MaxKey
    /\ heap[tree].data[1] = MaxKey
    /\ heap[tree].right = NULL
    /\ bst_height(heap, tree) < MaxKey - 1

\* the step of a destroy of the tree the caller holds
DestroyReleasesStep ==
    (op'.name = "destroy" /\ args'.tree # NULL) =>
        /\ exit_code' = 0
        /\ Len(released') = Cardinality(adopted)
        /\ Len(released') = Cardinality(keys)
        /\ Range(released') = adopted
        /\ Range(released') = {heap[a].data : a \in Holders(heap, tree)}
        /\ \A i, j \in DOMAIN released' : released'[i] = released'[j] => i = j
        /\ DOMAIN heap' = {}
        /\ live' = {}
        /\ heap[tree].data = NULLDATA => released' = <<>>

\* C12: destroy releases every payload the tree holds exactly once and
\* deallocates every node, with or without a release callback: as many
\* releases as adoptions not undone by a delete (the buffers of adopted, one
\* per key of keys); on the empty sentinel it releases nothing and returns.
DestroyReleasesEverything == [][DestroyReleasesStep]_vars

\* a tree of three nodes was destroyed: the children's payloads went before
\* the root's
DestroyWitness ==
    /\ op.name = "destroy"
    /\ args.tree # NULL
    /\ exit_code = 0
    /\ heap = <<>>
    /\ Len(released) = 3
    /\ released[1][1] = 1 /\ released[2][1] = 3 /\ released[3][1] = 2

\* the operations that require a handle
NeedsHandle == {"contains", "insert", "delete", "find_min", "find_max",
                "rebalance", "pretty_print"}

\* the step of a call without a handle
AbsentHandleStep ==
    (args'.tree = NULL /\ op'.name # "build_empty") =>
        /\ heap' = heap
        /\ released' = <<>>
        /\ live' = live
        /\ IF op'.name = "destroy"
           THEN exit_code' = 0
           ELSE /\ op'.name \in NeedsHandle
                /\ exit_code' = BINARY_SEARCH_TREE_NOT_INITIALIZED

\* C13: contains, insert, delete, find_min, find_max, rebalance and
\* pretty_print called with an absent handle terminate the process with
\* BINARY_SEARCH_TREE_NOT_INITIALIZED; destroy with an absent handle
\* returns normally and changes nothing.
AbsentHandleIsFatalButForDestroy == [][AbsentHandleStep]_vars

\* destroy(NULL) returned while the caller's tree still holds keys
AbsentHandleDestroyWitness ==
    /\ op.name = "destroy"
    /\ args.tree = NULL
    /\ exit_code = 0
    /\ keys # {}
    /\ Cardinality(Holders(heap, tree)) = Cardinality(keys)

\* the status an operation exits with on an absent key, payload or comparator
InvalidArgumentStatus(name) ==
    CASE name = "insert"   -> BINARY_SEARCH_TREE_INSERT_FAILED
      [] name = "contains" -> BINARY_SEARCH_TREE_CONTAINS_FAILED
      [] name = "delete"   -> BINARY_SEARCH_TREE_DELETE_FAILED

\* the step of a call on a present handle with an absent key or comparator,
\* or a zero size
InvalidArgumentStep ==
    (/\ args'.tree # NULL
     /\ op'.name \in {"insert", "contains", "delete"}
     /\ \/ op'.data = NULLDATA
        \/ args'.compare = NULL
        \/ op'.name = "insert" /\ args'.data_size = 0) =>
        /\ exit_code' = InvalidArgumentStatus(op'.name)
        /\ exit_code' \notin {BINARY_SEARCH_TREE_NOT_INITIALIZED,
                              MALFORMED_BINARY_SEARCH_TREE,
                              BINARY_SEARCH_TREE_ALLOCATION_FAILED,
                              BINARY_SEARCH_TREE_NODE_ALLOCATION_FAILED, 0}
        /\ heap' = heap
        /\ released' = <<>>
        /\ live' = live

\* C14: insert with an absent payload, an absent comparator or a zero size,
\* and contains or delete with an absent key or comparator, terminate the
\* process with that operation's own status (not the NotInitialized,
\* MalformedTree or allocation statuses) before any node is allocated,
\* released or relinked: the heap at termination is the heap before the call.
InvalidArgumentIsFatal == [][InvalidArgumentStep]_vars

\* an insert of a present payload with size 0 into a non-empty tree exited
ZeroSizeInsertWitness ==
    /\ op.name = "insert"
    /\ op.data # NULLDATA
    /\ args = Args(tree, INT_PTR_COMPARE, 0)
    /\ exit_code = BINARY_SEARCH_TREE_INSERT_FAILED
    /\ Cardinality(Holders(heap, tree)) >= 2

\* the step of a delete with valid arguments whose key is not stored
DeleteAbsentStep ==
    (/\ op'.name = "delete"
     /\ args'.tree # NULL /\ args'.compare # NULL /\ op'.data # NULLDATA
     /\ op'.data[1] \notin keys) =>
        /\ exit_code' = 0
        /\ released' = <<>>
        /\ heap' = heap
        /\ live' = live

\* C15: delete of a key that is not in the tree (the empty sentinel
\* included) returns normally, releases no payload, deallocates no node and
\* leaves every node's payload, size and links unchanged.
DeleteAbsentIsNoOp == [][DeleteAbsentStep]_vars

\* a key that is not stored was deleted from a tree of three nodes or more
DeleteAbsentWitness ==
    /\ op.name = "delete"
    /\ op.at.children = "none"
    /\ op.data[1] \notin keys
    /\ released = <<>>
    /\ Cardinality(Holders(heap, tree)) >= 3

\* C16: contains on an empty sentinel returns NULL for every key and never
\* calls the comparator (there is no payload to hand it), for the freshly
\* built sentinel and for the one left by the delete of the last key.
ContainsOnEmptySentinel ==
    (tree \in DOMAIN heap /\ heap[tree].data = NULLDATA) =>
        /\ \A k \in Keys :
              /\ bin_search_tree_contains(heap, tree, StackKey(k), INT_PTR_COMPARE)
                   = Ret(heap, NULL)
              /\ contains_compared(heap, tree, StackKey(k), INT_PTR_COMPARE) = <<>>
        /\ (op.name = "contains" /\ args = Args(tree, INT_PTR_COMPARE, 0)
              /\ op.data # NULLDATA)
             => (ret = NULL /\ exit_code = 0)

\* contains has run on an empty sentinel and reported "not found"
ContainsOnEmptyWitness ==
    /\ op.name = "contains"
    /\ heap[tree] = EmptyNode
    /\ keys = {}
    /\ ret = NULL
    /\ exit_code = 0

\* the holder of the smallest (dir < 0) or largest (dir > 0) payload below n
Extreme(h, n, dir) ==
    LET hs == Holders(h, n)
    IN  IF hs = {} THEN NULL
        ELSE CHOOSE a \in hs : \A m \in hs : dir * Cmp(h[a].data, h[m].data) >= 0

\* C17: on every non-empty (sub)tree find_min returns the node holding the
\* smallest payload and find_max the node holding the largest; find_min of
\* a node's right subtree is the node's in-order successor.
FindMinMaxCorrect ==
    /\ \A n \in Holders(heap, tree) :
          /\ bin_search_tree_find_min(heap, n) = Ret(heap, Extreme(heap, n, 0 - 1))
          /\ bin_search_tree_find_max(heap, n) = Ret(heap, Extreme(heap, n, 1))
          /\ heap[n].right # NULL =>
                bin_search_tree_find_min(heap, heap[n].right).ret
                  = HolderOf(heap, tree, SuccessorKey(heap, tree, heap[n].data[1]))
    /\ (op.name = "find_min" /\ args.tree \in Holders(heap, tree)) =>
          (exit_code = 0 /\ ret = Extreme(heap, args.tree, 0 - 1))
    /\ (op.name = "find_max" /\ args.tree \in Holders(heap, tree)) =>
          (exit_code = 0 /\ ret = Extreme(heap, args.tree, 1))

\* find_min was called on the root's right subtree and walked down to the
\* root's successor
FindMinSuccessorWitness ==
    /\ op.name = "find_min"
    /\ tree \in DOMAIN heap
    /\ heap[tree].right # NULL
    /\ args.tree = heap[tree].right
    /\ ret # args.tree
    /\ heap[ret].data[1] = heap[tree].data[1] + 1

\* C18: build_empty returns a present handle to the empty sentinel (no
\* payload, no children); after any sequence of insert, delete and rebalance
\* the tree is that sentinel or every reachable node has a payload, and no
\* reachable node has an absent payload together with a child.
SentinelOrAllPayloads ==
    LET b == bin_search_tree_build_empty(<<>>)
        R == Reach(heap, tree)
    IN  /\ b.exit = 0 /\ b.ret # NULL /\ b.heap[b.ret] = EmptyNode
        /\ op.name = "build_empty" => (ret = tree /\ heap = b.heap /\ tree = b.ret)
        /\ tree \in DOMAIN heap
        /\ \/ heap[tree] = EmptyNode /\ R = {tree}
           \/ \A a \in R : heap[a].data # NULLDATA
        /\ \A a \in R : heap[a].data = NULLDATA =>
              (heap[a].left = NULL /\ heap[a].right = NULL)

\* a leaf below the root was deleted and the nodes that stay all hold payloads
LeafDeletedAllPayloadsWitness ==
    /\ op.name = "delete"
    /\ op.at = [children |-> "leaf", root |-> FALSE]
    /\ Cardinality(Reach(heap, tree)) >= 2
    /\ \A a \in Reach(heap, tree) : heap[a].data # NULLDATA

\* the links of the reachable nodes that point to a
ParentLinks(h, t, a) ==
    {<<p, "left">> : p \in {q \in Reach(h, t) : h[q].left = a}}
    \cup {<<p, "right">> : p \in {q \in Reach(h, t) : h[q].right = a}}

\* the nodes strictly below a
Descendants(h, a) == ReachSet(h, {h[a].left, h[a].right} \cap DOMAIN h, {})

\* C19: the links reachable from the root form a strict binary tree of live
\* nodes: no cycle, every non-root node is the target of exactly one link,
\* the root of none, and no link points to a deallocated node.
StrictBinaryTree ==
    LET R == Reach(heap, tree)
    IN  /\ tree \in R
        /\ \A p \in R : /\ heap[p].left \in {NULL} \cup DOMAIN heap
                         /\ heap[p].right \in {NULL} \cup DOMAIN heap
        /\ \A a \in R \ {tree} : Cardinality(ParentLinks(heap, tree, a)) = 1
        /\ ParentLinks(heap, tree, tree) = {}
        /\ \A a \in R : a \notin Descendants(heap, a)

\* a node below the root with one child was deleted: its child was spliced
\* to its parent
SplicedWitness ==
    /\ op.name = "delete"
    /\ op.at = [children |-> "one", root |-> FALSE]
    /\ Cardinality(Reach(heap, tree)) >= 3

\* the step that deletes the only key, and the insert that follows it
LastKeyDeleteStep ==
    /\ (/\ op'.name = "delete"
         /\ args'.tree = tree
         /\ Holders(heap, tree) = {tree}
         /\ heap[tree].data # NULLDATA
         /\ Cmp(op'.data, heap[tree].data) = 0) =>
            /\ exit_code' = 0
            /\ released' = <<heap[tree].data>>
            /\ DOMAIN heap' = DOMAIN heap
            /\ heap'[tree] = EmptyNode
            /\ heap' = bin_search_tree_build_empty(<<>>).heap
            /\ tree' = bin_search_tree_build_empty(<<>>).ret
    /\ (/\ op.name = "delete"
         /\ op.at = [children |-> "leaf", root |-> TRUE]
         /\ op'.name = "insert"
         /\ args'.tree = tree) =>
            /\ exit_code' = 0
            /\ ret' = tree
            /\ DOMAIN heap' = DOMAIN heap
            /\ heap'[tree] = [data |-> op'.data, data_size |-> args'.data_size,
                              left |-> NULL, right |-> NULL]

\* C20: deleting the only key of a one-node tree releases its payload,
\* deallocates no node and leaves the root as the empty sentinel, the state
\* build_empty produces; the insert that follows stores its payload in that
\* same root node.
LastKeyDeleteRestoresSentinel == [][LastKeyDeleteStep]_vars

\* the number of children of node a
ChildCount(h, a) ==
    (IF h[a].left # NULL THEN 1 ELSE 0) + (IF h[a].right # NULL THEN 1 ELSE 0)

\* the step is a delete with valid arguments on the held tree, and the node
\* whose payload compares equal to the key (before the call) is loc
DeleteLocates(loc) ==
    /\ op'.name = "delete"
    /\ args'.tree = tree /\ args'.compare # NULL /\ op'.data # NULLDATA
    /\ loc # NULL
    /\ loc = HolderOf(heap, tree, op'.data[1])

\* the step of a delete that finds its key in a root with one child
RootOneChildDeleteStep ==
    (DeleteLocates(tree) /\ ChildCount(heap, tree) = 1) =>
        LET child == IF heap[tree].left # NULL THEN heap[tree].left ELSE heap[tree].right
        IN  /\ exit_code' = 0
            /\ tree' = tree
            /\ heap'[tree].data = heap[child].data
            /\ heap'[tree].data_size = heap[child].data_size
            /\ heap'[tree].left = heap[child].left
            /\ heap'[tree].right = heap[child].right
            /\ DOMAIN heap' = DOMAIN heap \ {child}
            /\ released' = <<heap[tree].data>>
            /\ heap[child].data \notin Range(released')
            /\ heap[child].data \in live'

\* C21: deleting the root's key when the root has exactly one child leaves
\* the root holding that child's payload and size and the child's former
\* left and right links; the child node is deallocated and the only payload
\* released is the old root payload.
RootOneChildDeleteMovesPayload == [][RootOneChildDeleteStep]_vars

\* the step of a delete that finds its key in a node with two children
TwoChildrenDeleteStep ==
    \A loc \in DOMAIN heap :
        (DeleteLocates(loc) /\ ChildCount(heap, loc) = 2) =>
            LET succ == HolderOf(heap, tree, SuccessorKey(heap, tree, heap[loc].data[1]))
                up   == ParentLinks(heap, tree, succ)
            IN  /\ exit_code' = 0
                /\ succ \in Reach(heap, heap[loc].right)
                /\ \A m \in Holders(heap, heap[loc].right) :
                      Cmp(heap[succ].data, heap[m].data) <= 0
                /\ heap[succ].left = NULL
                /\ DOMAIN heap' = DOMAIN heap \ {succ}
                /\ ParentLinks(heap', tree', loc) = ParentLinks(heap, tree, loc)
                /\ heap'[loc].left = heap[loc].left
                /\ Cardinality(up) = 1
                /\ \A l \in up :
                      IF l[1] = loc
                      THEN l[2] = "right" /\ heap'[loc].right = heap[succ].right
                      ELSE l[2] = "left" /\ heap'[l[1]].left = heap[succ].right

DeleteCall ==
    /\ op'.name = "delete"
    /\ args'.tree = tree /\ args'.compare # NULL /\ op'.data # NULLDATA

\* some node that is allocated before and after the step holds another
\* payload pointer after it
SurvivorPayloadChanged ==
    \E a \in DOMAIN heap \cap DOMAIN heap' : heap'[a].data # heap[a].data

\* the located node is freed, the link that pointed to it is cleared or
\* redirected to its lone child, the other nodes keep payload and size
LocatedNodeUnlinked(loc) ==
    LET up == ParentLinks(heap, tree, loc)
        lone == IF heap[loc].left # NULL THEN heap[loc].left ELSE heap[loc].right
    IN  /\ DOMAIN heap' = DOMAIN heap \ {loc}
        /\ Cardinality(up) = 1
        /\ \A l \in up :
              /\ l[1] \in DOMAIN heap'
              /\ IF l[2] = "left" THEN heap'[l[1]].left = lone
                                  ELSE heap'[l[1]].right = lone
        /\ \A a \in DOMAIN heap' :
              /\ heap'[a].data = heap[a].data
              /\ heap'[a].data_size = heap[a].data_size

\* C23 as stated: during delete a surviving node's payload changes only when
\* the located node is the root with exactly one child or has two children;
\* in every other case the located node is the node deallocated, its
\* parent's link is cleared or redirected, and the survivors keep their
\* payloads.  The delete of a root leaf refutes it.
DeleteChangesPayloadOnlyInTwoCasesStep ==
    DeleteCall =>
        LET loc == HolderOf(heap, tree, op'.data[1])
            moving == \/ loc = tree /\ ChildCount(heap, loc) = 1
                      \/ ChildCount(heap, loc) = 2
        IN  /\ SurvivorPayloadChanged => (loc # NULL /\ moving)
            /\ (loc # NULL /\ ~moving) => LocatedNodeUnlinked(loc)

DeleteChangesPayloadOnlyInTwoCases == [][DeleteChangesPayloadOnlyInTwoCasesStep]_vars

\* the step of a delete, all cases told apart
DeleteFrameStep ==
    DeleteCall =>
        LET loc == HolderOf(heap, tree, op'.data[1])
            n   == IF loc = NULL THEN 0 ELSE ChildCount(heap, loc)
        IN  /\ SurvivorPayloadChanged =>
                  (loc # NULL /\ ((loc = tree /\ n <= 1) \/ n = 2))
            /\ (loc # NULL /\ loc # tree /\ n <= 1) => LocatedNodeUnlinked(loc)
            /\ (loc = tree /\ n = 0) =>
                  /\ DOMAIN heap' = DOMAIN heap
                  /\ heap'[tree].data = NULLDATA

\* C23 (amended): a surviving node's payload changes only when the located
\* node is the root with at most one child (a root leaf stays allocated and
\* loses its payload) or has two children; for a non-root leaf and a
\* non-root node with one child the located node is the node deallocated,
\* its parent's link on the same side is cleared or redirected to its lone
\* child, and every surviving node holds the same payload as before.
DeleteFrame == [][DeleteFrameStep]_vars

\* a node below the root with one child was deleted from a full tree
NonRootOneChildFrameWitness ==
    /\ op.name = "delete"
    /\ op.at = [children |-> "one", root |-> FALSE]
    /\ Len(released) = 1
    /\ Cardinality(keys) = MaxKey - 1
    /\ Cardinality(DOMAIN heap) = MaxKey - 1

\* where the search path for key k ends below n: the node and the side of
\* its absent child
RECURSIVE SearchEnd(_, _, _)
SearchEnd(h, n, k) ==
    IF k < h[n].data[1]
    THEN IF h[n].left = NULL THEN <<n, "left">> ELSE SearchEnd(h, h[n].left, k)
    ELSE IF h[n].right = NULL THEN <<n, "right">> ELSE SearchEnd(h, h[n].right, k)

\* the step of an insert of a key that is not stored
InsertAbsentStep ==
    (/\ op'.name = "insert"
     /\ args'.tree = tree /\ args'.compare # NULL /\ args'.data_size # 0
     /\ op'.data # NULLDATA
     /\ HolderOf(heap, tree, op'.data[1]) = NULL) =>
        /\ exit_code' = 0
        /\ ret' \in DOMAIN heap'
        /\ heap'[ret'].data = op'.data
        /\ heap'[ret'].data_size = args'.data_size
        /\ op'.data \in live'
        /\ RefCount(heap', tree', op'.data) = 1
        /\ IF heap[tree].data = NULLDATA
           THEN /\ ret' = tree
                /\ DOMAIN heap' = DOMAIN heap
                /\ heap' = [heap EXCEPT ![tree].data = op'.data,
                                        ![tree].data_size = args'.data_size]
           ELSE LET e == SearchEnd(heap, tree, op'.data[1])
                IN  /\ ret' \notin DOMAIN heap
                    /\ DOMAIN heap' = DOMAIN heap \cup {ret'}
                    /\ heap'[ret'].left = NULL /\ heap'[ret'].right = NULL
                    /\ \A a \in DOMAIN heap :
                          heap'[a] = IF a # e[1] THEN heap[a]
                                     ELSE IF e[2] = "left"
                                          THEN [heap[a] EXCEPT !.left = ret']
                                          ELSE [heap[a] EXCEPT !.right = ret']

\* C24: inserting a key that is not present adopts the offered buffer and
\* returns the node that now holds it: on the empty sentinel that node is
\* the root and no node is allocated; otherwise one new leaf is allocated
\* and attached at the absent child position where the search path ends,
\* and no existing node's payload, size or other link changes.
InsertAbsentAttachesLeaf == [][InsertAbsentStep]_vars

\* a new leaf was attached two levels below the root
InsertDeepLeafWitness ==
    /\ op.name = "insert"
    /\ op.data \in adopted
    /\ ret \in DOMAIN heap
    /\ heap[ret].data = op.data
    /\ \E q \in Reach(heap, tree) \ {tree} : heap[q].left = ret \/ heap[q].right = ret

Abs(x) == IF x < 0 THEN 0 - x ELSE x

\* C25: after rebalance the root's left and right subtrees are each
\* height-balanced: for every node other than the root the heights of its
\* left and right subtrees differ by at most one.
RebalancedSubtreesBalanced ==
    (op.name = "rebalance" /\ exit_code = 0) =>
        \A a \in Reach(heap, tree) \ {tree} :
            Abs(bst_height(heap, heap[a].left) - bst_height(heap, heap[a].right)) <= 1

\* the tree built with 15 at the root and 1..14 in a chain, rebalanced: the
\* left subtree of 14 nodes is balanced, the root is not
RebalancedLeftHeavyWitness ==
    /\ op.name = "rebalance"
    /\ Cardinality(Holders(heap, tree)) = 15
    /\ heap[tree].data[1] = 15
    /\ bst_height(heap, heap[tree].left) = 3
    /\ heap[tree].right = NULL

\* C26: the size field of every payload-bearing node is the size that was
\* passed to insert together with the payload the node holds now (SizeOf of
\* the buffer), also after the two-children swap and the root-with-one-child
\* transfer.
SizeFollowsPayload ==
    \A a \in Holders(heap, tree) : heap[a].data_size = SizeOf(heap[a].data)

\* a two-children delete at the root moved the successor's payload, and its
\* size, into the root
SizeMovedWitness ==
    /\ op.name = "delete"
    /\ op.at.children = "two"
    /\ op.at.root
    /\ heap[tree].data[1] > op.data[1]
    /\ heap[tree].data_size = SizeOf(heap[tree].data)

\* C28: rebalance is idempotent on shape: a rebalance called right after a
\* rebalance returns normally and leaves every node's left and right links
\* exactly as the first call left them.
RebalanceIdempotent ==
    (op.name = "rebalance" /\ exit_code = 0) =>
        LET r == bin_search_tree_rebalance(heap, tree)
        IN  /\ r.exit = 0
            /\ DOMAIN r.heap = DOMAIN heap
            /\ \A a \in DOMAIN heap :
                  /\ r.heap[a].left = heap[a].left
                  /\ r.heap[a].right = heap[a].right

\* a rebalanced tree of all keys whose root holds the second smallest key
RebalancedTwiceWitness ==
    /\ op.name = "rebalance"
    /\ Cardinality(Holders(heap, tree)) = MaxKey
    /\ heap[tree].data[1] = 2
    /\ bin_search_tree_rebalance(heap, tree).heap = heap

\* the step of a rebalance of an existing tree
RebalanceSidesStep ==
    (op'.name = "rebalance" /\ args'.tree = tree /\ tree # NULL) =>
        /\ exit_code' = 0
        /\ heap'[tree].data = heap[tree].data
        /\ Reach(heap', heap'[tree].left) = Reach(heap, heap[tree].left)
        /\ Reach(heap', heap'[tree].right) = Reach(heap, heap[tree].right)
        /\ Cardinality(Holders(heap', heap'[tree].left))
             = Cardinality(Holders(heap, heap[tree].left))
        /\ Cardinality(Holders(heap', heap'[tree].right))
             = Cardinality(Holders(heap, heap[tree].right))

\* C29: rebalance keeps the root's payload and the number of nodes on each
\* side of the root: the left subtree of the root holds the same nodes
\* before and after the call, and so does the right subtree.
RebalanceKeepsSides == [][RebalanceSidesStep]_vars

\* a rebalanced tree with one node left of the root and two or more right
RebalanceUnevenSidesWitness ==
    /\ op.name = "rebalance"
    /\ heap[tree].data # NULLDATA
    /\ Cardinality(Reach(heap, heap[tree].left)) = 1
    /\ Cardinality(Reach(heap, heap[tree].right)) >= 2

\* C30: no sequence of insert, contains, delete and rebalance calls with
\* valid arguments that starts from build_empty terminates the program with
\* MALFORMED_BINARY_SEARCH_TREE: no reachable node without a payload has a
\* child, no node below the root is without a payload, and the root is in
\* the traversal rebalance scans.
NeverMalformed ==
    /\ exit_code # MALFORMED_BINARY_SEARCH_TREE
    /\ \A a \in Reach(heap, tree) :
          heap[a].data = NULLDATA => heap[a].left = NULL /\ heap[a].right = NULL
    /\ \A a \in Reach(heap, tree) \ {tree} : heap[a].data # NULLDATA
    /\ heap[tree].data # NULLDATA =>
          \E i \in 1..Len(bst_fill_nodes_inorder(heap, tree)) :
              bst_fill_nodes_inorder(heap, tree)[i] = tree

\* rebalance found the root at the first position of the traversal and
\* returned normally
RootFirstRebalancedWitness ==
    /\ op.name = "rebalance"
    /\ exit_code = 0
    /\ heap[tree].data # NULLDATA
    /\ heap[tree].left = NULL
    /\ heap[tree].right # NULL
    /\ bst_fill_nodes_inorder(heap, tree)[1] = tree

\* C27: every call of contains, insert, delete, find_min, find_max, rebalance
\* and destroy on a tree built from build_empty runs to completion: the
\* descents, the walk to the successor's parent, the scan for the root's
\* position and the recursive calls all come to an end, the call reaches
\* the straight-line rest of the function (Return).
CallsRunToCompletion == (run.pc \notin {"idle", "done"}) ~> (run.pc = "return")

\* the walk to the successor's parent is under way, two levels above succ
SuccParentWalkWitness ==
    /\ run.pc = "succ_parent"
    /\ heap[run.curr].left # run.succ
    /\ heap[heap[run.curr].left].left = run.succ

====
